---- MODULE Spec2Model ----
(***************************************************************************)
(* Verification model of the call-graph pipeline of sabrina_doc_gen:       *)
(*   src/src/lsp_build_deps.py      build_dependencies (Call-Edge Builder) *)
(*   src/src/lsp_json/integrate.py  integrate          (Graph Integrator)  *)
(*   src/src/llm_input_gen/topo.py  topo_order         (Sequencer)         *)
(* Python strings are sequences of one-character strings, so that prefix   *)
(* tests, substring search, rsplit and lexicographic sorting are computed  *)
(* and not assumed.  Each stage is a state machine of its own with its     *)
(* own specification (SpecTopo, SpecIntegrate, SpecDeps, ...); the         *)
(* variables of the other stages stay at their idle values.  The helpers   *)
(* pos_in_range, find_enclosing_symbol and normalize_ref_file, the pruning *)
(* functions of lsp_prune.py and the runner of pipeline.py have           *)
(* specifications of their own further down.                               *)
(***************************************************************************)
EXTENDS Integers, Sequences, FiniteSets, TLC

VARIABLES
    \* topo_order
    symbols,      \* input: list of [id, calls]
    reverse,      \* input: the reverse flag
    out_e,        \* id -> set of ids (defaultdict(set))
    in_deg,       \* id -> in-degree
    q,            \* Kahn's ready list (kept sorted)
    order,        \* extracted ids
    topo_ret,     \* the returned list
    tpc,          \* "idle" | "start" | "kahn" | "done"
    \* integrate
    pruned,       \* input: the pruned symbols list
    deps,         \* input: the function_edges list
    by_id,        \* id -> symbol with id, calls, calledBy
    by_file_name, \* (file, name) -> id
    externals,    \* id -> external entry
    ei,           \* index of the next edge of the wiring loop
    result,       \* the returned document
    ipc,          \* "idle" | "start" | "wire" | "done"
    \* build_dependencies
    data,         \* input: the raw per-file document (data["files"])
    cursor,       \* index of the next reference in iteration order
    func_edges,   \* the edges appended so far (line 242)
    func_edge_refs, \* history: the reference each of them was produced from
    file_edges,   \* the set of file edges (line 247)
    deps_ret,     \* the returned document
    dpc,          \* "idle" | "scan" | "done"
    \* main of topo.py
    args,         \* the command line: [reverse, keep_externals]
    main_symbols, \* data["symbols"] of the input file
    main_order,   \* the list topo_order returned to main
    out,          \* the document written: [symbols, meta]
    mpc,          \* "idle" | "start" | "ordered" | "done"
    \* prune_hover
    hv_list,      \* the argument, as the object is now: [kind, items]
    hv_orig,      \* history: the argument as it was at the call
    hi,           \* index of the next entry of the loop
    hv_ret,       \* the returned value
    ppc           \* "idle" | "start" | "loop" | "done"

\* pos_in_range: the arguments, the returned value, "idle" | "start" | "done"
VARIABLES pir_line, pir_ch, pir_rng, pir_ret, rpc

\* find_enclosing_symbol: the arguments, the index of the returned symbol, "idle" | "start" | "done"
VARIABLES fes_symbols, fes_line, fes_ch, fes_ret, fpc

\* prune_references: the arguments, the counter dict, the loop index, the returned list, "idle" | "loop" | "done"
VARIABLES pr_refs, pr_root, counter, pr_i, pr_ret, cpc

\* detect_repo_root: data["symbols"], the directories on disk, the collected paths, the fold, the loop index, the returned path, "idle" | "start" | "fold" | "done"
VARIABLES dr_data, disk, abs_paths, common_path, dr_i, dr_ret, rtpc

\* pipeline main: the output directory, its documents, the next stage, the log of started stages, the final message, "idle" | "main" | "child" | "raised" | "done"
VARIABLES output_dir, pl_files, pl_stage, pl_log, pl_printed, plpc

\* normalize_ref_file: the arguments, the returned value, "idle" | "start" | "done"
VARIABLES nrf_ref, nrf_keys, nrf_ret, npc

topoVars == <<symbols, reverse, out_e, in_deg, q, order, topo_ret, tpc>>

intVars == <<pruned, deps, by_id, by_file_name, externals, ei, result, ipc>>

depsVars == <<data, cursor, func_edges, func_edge_refs, file_edges, deps_ret, dpc>>

mainVars == <<args, main_symbols, main_order, out, mpc>>

hoverVars == <<hv_list, hv_orig, hi, hv_ret, ppc>>

rangeVars == <<pir_line, pir_ch, pir_rng, pir_ret, rpc>>

enclosingVars == <<fes_symbols, fes_line, fes_ch, fes_ret, fpc>>

refsVars == <<pr_refs, pr_root, counter, pr_i, pr_ret, cpc>>

rootVars == <<dr_data, disk, abs_paths, common_path, dr_i, dr_ret, rtpc>>

pipeVars == <<output_dir, pl_files, pl_stage, pl_log, pl_printed, plpc>>

normVars == <<nrf_ref, nrf_keys, nrf_ret, npc>>

vars == <<topoVars, intVars, depsVars, mainVars, hoverVars, rangeVars, enclosingVars, refsVars, rootVars, pipeVars, normVars>>

\* Python None (a value that is not a str); no string of characters equals it
None == <<"None">>

(***************************************************************************)
(* Strings                                                                 *)
(***************************************************************************)

\* The characters the model uses, in ascending code-point order.
Alphabet ==
    << " ", "(", ")", ".", "/", ":", "<", ">",
       "C", "E", "J", "O", "P", "R", "T",
       "a", "b", "c", "d", "e", "f", "g", "h", "i", "j", "k", "l", "m", "n",
       "o", "p", "r", "s", "t", "u", "w", "x", "y", "z" >>

Ord(ch) == CHOOSE i \in 1..Len(Alphabet) : Alphabet[i] = ch

IsStr(s) == s # None

Min(a, b) == IF a < b THEN a ELSE b

\* str.startswith / str.endswith / `p in s` / s.index(p)
StartsWith(s, p) == Len(s) >= Len(p) /\ SubSeq(s, 1, Len(p)) = p

EndsWith(s, p) == Len(s) >= Len(p) /\ SubSeq(s, Len(s) - Len(p) + 1, Len(s)) = p

Occurrences(s, p) == {i \in 1..(Len(s) - Len(p) + 1) : SubSeq(s, i, i + Len(p) - 1) = p}

Contains(s, p) == Occurrences(s, p) # {}

IndexOf(s, p) == CHOOSE i \in Occurrences(s, p) : \A j \in Occurrences(s, p) : i <= j

\* Python's < on str: the first differing code point decides, a proper prefix is smaller
StrLt(a, b) ==
    \E i \in 1..(Min(Len(a), Len(b)) + 1) :
        /\ \A j \in 1..(i - 1) : a[j] = b[j]
        /\ \/ i > Len(a) /\ i <= Len(b)
           \/ i <= Len(a) /\ i <= Len(b) /\ Ord(a[i]) < Ord(b[i])

StrLe(a, b) == a = b \/ StrLt(a, b)

\* sorted(S) for a set (or a list without repetitions) of strings
RECURSIVE SortedStrs(_)
SortedStrs(S) ==
    IF S = {} THEN <<>>
    ELSE LET m == CHOOSE x \in S : \A y \in S : StrLe(x, y)
         IN <<m>> \o SortedStrs(S \ {m})

\* list.sort() / sorted(list) on a list of strings (repetitions kept)
RECURSIVE InsertStr(_, _)
InsertStr(sorted, x) ==
    IF sorted = <<>> THEN <<x>>
    ELSE IF StrLt(x, Head(sorted)) THEN <<x>> \o sorted
    ELSE <<Head(sorted)>> \o InsertStr(Tail(sorted), x)

RECURSIVE SortList(_)
SortList(l) == IF l = <<>> THEN <<>> ELSE InsertStr(SortList(SubSeq(l, 1, Len(l) - 1)), l[Len(l)])

Range(l) == {l[i] : i \in 1..Len(l)}

Reversed(l) == [i \in 1..Len(l) |-> l[Len(l) + 1 - i]]

\* position of x in l (1-based), 0 when absent
PosOf(l, x) == IF x \in Range(l) THEN CHOOSE i \in 1..Len(l) : l[i] = x ELSE 0

Count(l, x) == Cardinality({i \in 1..Len(l) : l[i] = x})

\* all sequences over S of length at most n
SeqsUpTo(S, n) == UNION {[1..k -> S] : k \in 0..n}

IdleTopo ==
    /\ symbols = <<>>
    /\ reverse = FALSE
    /\ out_e = <<>>
    /\ in_deg = <<>>
    /\ q = <<>>
    /\ order = <<>>
    /\ topo_ret = <<>>
    /\ tpc = "idle"

IdleIntegrate ==
    /\ pruned = <<>>
    /\ deps = <<>>
    /\ by_id = <<>>
    /\ by_file_name = <<>>
    /\ externals = <<>>
    /\ ei = 0
    /\ result = <<>>
    /\ ipc = "idle"

IdleDeps ==
    /\ data = <<>>
    /\ cursor = 0
    /\ func_edges = <<>>
    /\ func_edge_refs = <<>>
    /\ file_edges = {}
    /\ deps_ret = <<>>
    /\ dpc = "idle"

IdleMain ==
    /\ args = <<>>
    /\ main_symbols = <<>>
    /\ main_order = <<>>
    /\ out = <<>>
    /\ mpc = "idle"

IdleHover ==
    /\ hv_list = <<>>
    /\ hv_orig = <<>>
    /\ hi = 0
    /\ hv_ret = <<>>
    /\ ppc = "idle"

IdleRange ==
    /\ pir_line = 0
    /\ pir_ch = 0
    /\ pir_rng = <<>>
    /\ pir_ret = FALSE
    /\ rpc = "idle"

IdleEnclosing ==
    /\ fes_symbols = <<>>
    /\ fes_line = 0
    /\ fes_ch = 0
    /\ fes_ret = 0
    /\ fpc = "idle"

IdleRefs ==
    /\ pr_refs = <<>>
    /\ pr_root = <<>>
    /\ counter = <<>>
    /\ pr_i = 0
    /\ pr_ret = <<>>
    /\ cpc = "idle"

IdleRoot ==
    /\ dr_data = <<>>
    /\ disk = {}
    /\ abs_paths = <<>>
    /\ common_path = <<>>
    /\ dr_i = 0
    /\ dr_ret = <<>>
    /\ rtpc = "idle"

IdlePipe ==
    /\ output_dir = ""
    /\ pl_files = {}
    /\ pl_stage = 0
    /\ pl_log = <<>>
    /\ pl_printed = FALSE
    /\ plpc = "idle"

IdleNorm ==
    /\ nrf_ref = <<>>
    /\ nrf_keys = <<>>
    /\ nrf_ret = <<>>
    /\ npc = "idle"

(***************************************************************************)
(* topo.py: topo_order                                                     *)
(***************************************************************************)

\* is_external(sym_id)
IsExternal(sym_id) ==
    StartsWith(sym_id, <<"/">>)
    \/ StartsWith(sym_id, <<"e", "x", "t", "e", "r", "n", "a", "l", ":", "/">>)

\* ids = {s.get("id") for s in symbols if isinstance(..., str) and not is_external(...)}
Ids(syms) == {syms[i].id : i \in {j \in 1..Len(syms) : IsStr(syms[j].id) /\ ~IsExternal(syms[j].id)}}

\* Mutant: every entry of a calls list counts, a repeated one again
RECURSIVE AddCallsCounting(_, _, _)
AddCallsCounting(g, sid, calls) ==
    IF calls = <<>> THEN g
    ELSE LET d == Head(calls)
             g1 == IF d \in DOMAIN g.in_deg
                   THEN [out_e  |-> [g.out_e EXCEPT ![sid] = @ \cup {d}],
                         in_deg |-> [g.in_deg EXCEPT ![d] = @ + 1]]
                   ELSE g
         IN AddCallsCounting(g1, sid, Tail(calls))

\* for d in s.calls: if d in ids and d not in out_e[sid]: out_e[sid].add(d); in_deg[d] += 1
RECURSIVE AddCalls(_, _, _)
AddCalls(g, sid, calls) ==
    IF calls = <<>> THEN g
    ELSE LET d == Head(calls)
             g1 == IF d \in DOMAIN g.in_deg /\ d \notin g.out_e[sid]
                   THEN [out_e  |-> [g.out_e EXCEPT ![sid] = @ \cup {d}],
                         in_deg |-> [g.in_deg EXCEPT ![d] = @ + 1]]
                   ELSE g
         IN AddCalls(g1, sid, Tail(calls))

\* for s in symbols: skip non-project ids, add the calls of the others
RECURSIVE BuildGraph(_, _)
BuildGraph(g, syms) ==
    IF syms = <<>> THEN g
    ELSE LET s == Head(syms)
         IN IF ~IsStr(s.id) \/ IsExternal(s.id)
            THEN BuildGraph(g, Tail(syms))
            ELSE BuildGraph(AddCalls(g, s.id, s.calls), Tail(syms))

\* out_e and in_deg after the loop of lines 33-42 (every project id is a key of
\* out_e by then, line 42)
InitialGraph(syms) ==
    BuildGraph([out_e |-> [v \in Ids(syms) |-> {}], in_deg |-> [v \in Ids(syms) |-> 0]], syms)

\* q = sorted([v for v, d in in_deg.items() if d == 0])
\* Mutant: the queue is left as the appends made it
ResortSkipped(queue) == queue

\* line 54: q.sort()
Resort(queue) == SortList(queue)

ZeroInDegree(deg) == SortedStrs({v \in DOMAIN deg : deg[v] = 0})

\* for w in sorted(out_e[v]): in_deg[w] -= 1; if in_deg[w] == 0: q.append(w)
RECURSIVE Relax(_, _)
Relax(st, ws) ==
    IF ws = <<>> THEN st
    ELSE LET w == Head(ws)
             d == st.in_deg[w] - 1
         IN Relax([in_deg |-> [st.in_deg EXCEPT ![w] = d],
                   q      |-> IF d = 0 THEN Append(st.q, w) ELSE st.q], Tail(ws))

\* Mutant: the nodes left over by Kahn's loop are forgotten
RemainingForgotten(deg, ord) == <<>>

\* Mutant: the nodes left over by Kahn's loop are appended in descending order
RemainingDescending(deg, ord) ==
    Reversed(SortedStrs({v \in DOMAIN deg : deg[v] > 0 /\ v \notin Range(ord)}))

\* remaining = sorted([v for v, d in in_deg.items() if d > 0 and v not in order])
Remaining(deg, ord) == SortedStrs({v \in DOMAIN deg : deg[v] > 0 /\ v \notin Range(ord)})

\* return list(reversed(order)) if reverse else order
Returned(ord, rev) == IF rev THEN Reversed(ord) ELSE ord

\* lines 47-54: the loop `while q`, st is [in_deg, q, order]
RECURSIVE KahnLoop(_, _)
KahnLoop(st, oe) ==
    IF st.q = <<>> THEN st
    ELSE LET v == Head(st.q)
             r == Relax([in_deg |-> st.in_deg, q |-> Tail(st.q)], SortedStrs(oe[v]))
         IN KahnLoop([in_deg |-> r.in_deg, q |-> Resort(r.q), order |-> Append(st.order, v)], oe)

\* topo_order(symbols, reverse) as a whole: the list it returns
TopoOrder(syms, rev) ==
    LET g == InitialGraph(syms)
        st == KahnLoop([in_deg |-> g.in_deg, q |-> ZeroInDegree(g.in_deg), order |-> <<>>], g.out_e)
    IN Returned(st.order \o Remaining(st.in_deg, st.order), rev)

\* Bounds of the sequencer's inputs
MaxSyms == 3
MaxCallEntries == 3

\* IDs used by the sequencer's inputs: three project ids and an external one
TopoIds == {<<"a">>, <<"b">>, <<"c">>, <<"/", "e">>}

\* lists of k calls lists holding at most `budget` entries altogether
RECURSIVE CallLists(_, _)
CallLists(k, budget) ==
    IF k = 0 THEN {<<>>}
    ELSE UNION {{<<c>> \o rest : rest \in CallLists(k - 1, budget - Len(c))} :
                    c \in SeqsUpTo(TopoIds, budget)}

\* The sequencer reads integrate's output, whose symbols list is strictly
\* ascending by id (integrate.py:220); the calls lists are arbitrary: any
\* order, repetitions, self-calls, external and absent callees.
TopoInputs ==
    UNION {{[i \in 1..Len(is) |-> [id |-> is[i], calls |-> cs[i]]] :
                cs \in CallLists(Len(is), MaxCallEntries)} :
           is \in {SortedStrs(S) : S \in {T \in SUBSET TopoIds : Cardinality(T) <= MaxSyms}}}

InitTopo ==
    /\ symbols \in TopoInputs
    /\ reverse \in BOOLEAN
    /\ out_e = <<>>
    /\ in_deg = <<>>
    /\ q = <<>>
    /\ order = <<>>
    /\ topo_ret = <<>>
    /\ tpc = "start"
    /\ IdleIntegrate
    /\ IdleDeps
    /\ IdleMain
    /\ IdleHover
    /\ IdleRange
    /\ IdleEnclosing
    /\ IdleRefs
    /\ IdleRoot
    /\ IdlePipe
    /\ IdleNorm

\* lines 29-45
TopoBuild ==
    /\ tpc = "start"
    /\ LET g == InitialGraph(symbols)
       IN /\ out_e' = g.out_e
          /\ in_deg' = g.in_deg
          /\ q' = ZeroInDegree(g.in_deg)
    /\ tpc' = "kahn"
    /\ UNCHANGED <<symbols, reverse, order, topo_ret, intVars, depsVars, mainVars, hoverVars, rangeVars, enclosingVars, refsVars, rootVars, pipeVars, normVars>>

\* lines 47-54: one iteration of `while q`
KahnStep ==
    /\ tpc = "kahn"
    /\ q # <<>>
    /\ LET v == Head(q)
           st == Relax([in_deg |-> in_deg, q |-> Tail(q)], SortedStrs(out_e[v]))
       IN /\ order' = Append(order, v)
          /\ in_deg' = st.in_deg
          /\ q' = Resort(st.q)
    /\ UNCHANGED <<symbols, reverse, out_e, topo_ret, tpc, intVars, depsVars, mainVars, hoverVars, rangeVars, enclosingVars, refsVars, rootVars, pipeVars, normVars>>

\* lines 56-60
TopoFinish ==
    /\ tpc = "kahn"
    /\ q = <<>>
    /\ order' = order \o Remaining(in_deg, order)
    /\ topo_ret' = Returned(order', reverse)
    /\ tpc' = "done"
    /\ UNCHANGED <<symbols, reverse, out_e, in_deg, q, intVars, depsVars, mainVars, hoverVars, rangeVars, enclosingVars, refsVars, rootVars, pipeVars, normVars>>

NextTopo == TopoBuild \/ KahnStep \/ TopoFinish

\* topo_order is a loop of a single thread: it keeps running until it returns
SpecTopo == InitTopo /\ [][NextTopo]_vars /\ WF_vars(NextTopo)

(***************************************************************************)
(* topo.py: main, the topo command                                         *)
(***************************************************************************)

MissingPos == 1000000000

\* line 79: pos = {sid: i for i, sid in enumerate(order)}
PosMap(ord) ==
    [v \in Range(ord) |->
        (CHOOSE i \in 1..Len(ord) : ord[i] = v /\ \A j \in (i + 1)..Len(ord) : ord[j] # v) - 1]

\* the key of line 83: (pos.get(s["id"], 10**9), s["id"])
RankLe(a, b, pos) ==
    LET ka == IF a.id \in DOMAIN pos THEN pos[a.id] ELSE MissingPos
        kb == IF b.id \in DOMAIN pos THEN pos[b.id] ELSE MissingPos
    IN ka < kb \/ (ka = kb /\ StrLe(a.id, b.id))

\* sorted(proj_syms, key=...): a stable sort
RECURSIVE InsertRanked(_, _, _)
InsertRanked(sorted, x, pos) ==
    IF sorted = <<>> THEN <<x>>
    ELSE IF RankLe(Head(sorted), x, pos) THEN <<Head(sorted)>> \o InsertRanked(Tail(sorted), x, pos)
    ELSE <<x>> \o sorted

RECURSIVE SortRanked(_, _)
SortRanked(l, pos) ==
    IF l = <<>> THEN <<>>
    ELSE InsertRanked(SortRanked(SubSeq(l, 1, Len(l) - 1), pos), l[Len(l)], pos)

InitMain ==
    /\ main_symbols \in TopoInputs
    /\ args \in [reverse : BOOLEAN, keep_externals : BOOLEAN]
    /\ main_order = <<>>
    /\ out = <<>>
    /\ mpc = "start"
    /\ IdleTopo
    /\ IdleIntegrate
    /\ IdleDeps
    /\ IdleHover
    /\ IdleRange
    /\ IdleEnclosing
    /\ IdleRefs
    /\ IdleRoot
    /\ IdlePipe
    /\ IdleNorm

\* lines 74-79
MainOrder ==
    /\ mpc = "start"
    /\ main_order' = TopoOrder(main_symbols, TRUE)
    /\ mpc' = "ordered"
    /\ UNCHANGED <<args, main_symbols, out, topoVars, intVars, depsVars, hoverVars, rangeVars, enclosingVars, refsVars, rootVars, pipeVars, normVars>>

\* lines 81-101
MainWrite ==
    /\ mpc = "ordered"
    /\ LET IsProject(s) == IsStr(s.id) /\ ~IsExternal(s.id)
           IsExt(s) == IsExternal(s.id)
           proj_syms_sorted == SortRanked(SelectSeq(main_symbols, IsProject), PosMap(main_order))
           final_syms == IF args.keep_externals
                         THEN proj_syms_sorted \o SelectSeq(main_symbols, IsExt)
                         ELSE proj_syms_sorted
       IN out' = [symbols |-> final_syms,
                  meta |-> [order |-> IF ~args.reverse THEN "topological"
                                      ELSE "reverse_topological",
                            node_count |-> Len(final_syms)]]
    /\ mpc' = "done"
    /\ UNCHANGED <<args, main_symbols, main_order, topoVars, intVars, depsVars, hoverVars, rangeVars, enclosingVars, refsVars, rootVars, pipeVars, normVars>>

NextMain == MainOrder \/ MainWrite

SpecMain == InitMain /\ [][NextMain]_vars /\ WF_vars(NextMain)

(***************************************************************************)
(* integrate.py                                                            *)
(***************************************************************************)

PROJECT_TOKEN == <<"P", "R", "O", "J", "E", "C", "T">>

Slash == <<"/">>

Colon == <<":">>

UsrMarker == <<"/", "u", "s", "r", "/">>

\* the working directory Path(s).resolve() resolves a relative path against
Cwd == <<"/", "w">>

\* normalize_external_path(s)
NormalizeExternalPath(s) ==
    IF ~IsStr(s) THEN s
    ELSE IF Contains(s, UsrMarker) THEN SubSeq(s, IndexOf(s, UsrMarker), Len(s))
    ELSE IF StartsWith(s, Slash) THEN s
    ELSE Cwd \o Slash \o s

\* ep.rsplit(":", 1): the text before and after the last colon
LastColon(ep) == CHOOSE i \in Occurrences(ep, Colon) : \A j \in Occurrences(ep, Colon) : j <= i

\* parse_dep_endpoint(ep) -> (file_part, name)
ParseDepEndpoint(ep) ==
    IF ~IsStr(ep) \/ ~Contains(ep, Colon) THEN [file |-> ep, name |-> <<>>]
    ELSE LET file_part == SubSeq(ep, 1, LastColon(ep) - 1)
             name == SubSeq(ep, LastColon(ep) + 1, Len(ep))
         IN [file |-> IF Contains(file_part, UsrMarker) /\ ~StartsWith(file_part, UsrMarker)
                      THEN NormalizeExternalPath(file_part)
                      ELSE file_part,
             name |-> name]

\* Mutant: the id is always built from the file the symbol was observed in
ComputeSymbolIdByFile(sym) ==
    IF ~IsStr(sym.name) THEN None
    ELSE IF IsStr(sym.file) /\ sym.file # <<>>
         THEN PROJECT_TOKEN \o Slash \o sym.file \o Colon \o sym.name
    ELSE None

\* compute_symbol_id(sym); sym.defs lists the absolutePath of each definition
ComputeSymbolId(sym) ==
    IF ~IsStr(sym.name) THEN None
    ELSE IF sym.defs # <<>> /\ IsStr(sym.defs[1]) /\ sym.defs[1] # <<>>
         THEN sym.defs[1] \o Colon \o sym.name
    ELSE IF IsStr(sym.file) /\ sym.file # <<>>
         THEN PROJECT_TOKEN \o Slash \o sym.file \o Colon \o sym.name
    ELSE None

\* make_external_id(abs_path, name)
MakeExternalId(abs_path, name) == abs_path \o Colon \o name

\* dict[k] = v
Put(d, k, v) == [x \in DOMAIN d \cup {k} |-> IF x = k THEN v ELSE d[x]]

\* build_indices(pruned): the loop over pruned["symbols"], a later symbol with
\* the same id or the same (file, name) replaces an earlier one
RECURSIVE BuildIndices(_, _)
BuildIndices(idx, syms) ==
    IF syms = <<>> THEN idx
    ELSE LET sym == Head(syms)
             sid == ComputeSymbolId(sym)
         IN IF sid = None THEN BuildIndices(idx, Tail(syms))
            ELSE BuildIndices(
                   [by_id |-> Put(idx.by_id, sid,
                                  [id |-> sid, name |-> sym.name, file |-> sym.file,
                                   calls |-> <<>>, calledBy |-> <<>>]),
                    by_file_name |-> IF IsStr(sym.file) /\ IsStr(sym.name)
                                     THEN Put(idx.by_file_name, <<sym.file, sym.name>>, sid)
                                     ELSE idx.by_file_name],
                   Tail(syms))

\* Mutant: an endpoint without a name is resolved like any other
IdFromDepEndpointNameless(ep, index) ==
    LET p == ParseDepEndpoint(ep)
    IN IF StartsWith(p.file, PROJECT_TOKEN \o Slash)
       THEN LET proj_rel == SubSeq(p.file, Len(PROJECT_TOKEN) + 2, Len(p.file))
            IN IF <<proj_rel, p.name>> \in DOMAIN index
               THEN index[<<proj_rel, p.name>>]
               ELSE p.file \o Colon \o p.name
       ELSE IF ~StartsWith(p.file, Slash)
            THEN IF <<p.file, p.name>> \in DOMAIN index
                 THEN index[<<p.file, p.name>>]
                 ELSE PROJECT_TOKEN \o Slash \o p.file \o Colon \o p.name
       ELSE MakeExternalId(NormalizeExternalPath(p.file), p.name)

\* id_from_dep_endpoint(ep), given the (file, name) index
IdFromDepEndpoint(ep, index) ==
    LET p == ParseDepEndpoint(ep)
    IN IF p.name = <<>> THEN None
       ELSE IF StartsWith(p.file, PROJECT_TOKEN \o Slash)
            THEN LET proj_rel == SubSeq(p.file, Len(PROJECT_TOKEN) + 2, Len(p.file))
                 IN IF <<proj_rel, p.name>> \in DOMAIN index
                    THEN index[<<proj_rel, p.name>>]
                    ELSE p.file \o Colon \o p.name
       ELSE IF ~StartsWith(p.file, Slash)
            THEN IF <<p.file, p.name>> \in DOMAIN index
                 THEN index[<<p.file, p.name>>]
                 ELSE PROJECT_TOKEN \o Slash \o p.file \o Colon \o p.name
       ELSE MakeExternalId(NormalizeExternalPath(p.file), p.name)

\* lines 194-197 and 198-201: register an endpoint that is no project symbol
RegisterExternal(ext, ids, id, raw) ==
    IF id \notin ids /\ id \notin DOMAIN ext
    THEN LET p == ParseDepEndpoint(raw)
         IN IF StartsWith(p.file, Slash)
            THEN Put(ext, id, [id |-> id, absolutePath |-> NormalizeExternalPath(p.file),
                               name |-> p.name])
            ELSE ext
    ELSE ext

\* Mutant: the callee's calledBy list is not written
AttachForward(syms, src_id, dst_id) ==
    IF src_id \in DOMAIN syms /\ dst_id \notin Range(syms[src_id].calls)
    THEN [syms EXCEPT ![src_id].calls = Append(@, dst_id)]
    ELSE syms

\* Mutant: an edge is attached only when both of its ends are project symbols
AttachProjectOnly(syms, src_id, dst_id) ==
    IF src_id \in DOMAIN syms /\ dst_id \in DOMAIN syms
    THEN [syms EXCEPT ![src_id].calls = IF dst_id \in Range(@) THEN @ ELSE Append(@, dst_id),
                      ![dst_id].calledBy = IF src_id \in Range(@) THEN @ ELSE Append(@, src_id)]
    ELSE syms

\* Mutant: an edge is attached again each time it is listed
AttachAgain(syms, src_id, dst_id) ==
    LET s1 == IF src_id \in DOMAIN syms
              THEN [syms EXCEPT ![src_id].calls = Append(@, dst_id)]
              ELSE syms
    IN IF dst_id \in DOMAIN s1
       THEN [s1 EXCEPT ![dst_id].calledBy = Append(@, src_id)]
       ELSE s1

\* lines 204-209: attach the edge to the project symbols at its ends
Attach(syms, src_id, dst_id) ==
    LET s1 == IF src_id \in DOMAIN syms /\ dst_id \notin Range(syms[src_id].calls)
              THEN [syms EXCEPT ![src_id].calls = Append(@, dst_id)]
              ELSE syms
    IN IF dst_id \in DOMAIN s1 /\ src_id \notin Range(s1[dst_id].calledBy)
       THEN [s1 EXCEPT ![dst_id].calledBy = Append(@, src_id)]
       ELSE s1

\* lines 183-209: one function edge, given the (file, name) index; st is
\* [by_id, externals]
WireOne(st, e, index) ==
    LET src_id == IdFromDepEndpoint(e.src, index)
        dst_id == IdFromDepEndpoint(e.dst, index)
    IN IF ~IsStr(e.src) \/ ~IsStr(e.dst) \/ src_id = None \/ dst_id = None THEN st
       ELSE [by_id |-> Attach(st.by_id, src_id, dst_id),
             externals |-> RegisterExternal(
                               RegisterExternal(st.externals, DOMAIN st.by_id, src_id, e.src),
                               DOMAIN st.by_id, dst_id, e.dst)]

\* lines 212-215 and 220: sort every calls and calledBy list, then the symbols by id
SymbolsOut(syms) ==
    LET ids == SortedStrs(DOMAIN syms)
    IN [i \in 1..Len(ids) |-> [syms[ids[i]] EXCEPT !.calls = SortList(@),
                                                  !.calledBy = SortList(@)]]

\* line 221: the externals sorted by id
ExternalsOut(ext) ==
    LET ids == SortedStrs(DOMAIN ext)
    IN [i \in 1..Len(ids) |-> ext[ids[i]]]

\* Pruned symbols: f and g declared in file a; f as seen from file b (an
\* import: same definition, hence the same id as f); another g, declared in
\* file b, without a definition like the first; c declared in the project
\* file usr/c; c imported into a from
\* the library file /usr/c; a record without a name
SymF == [name |-> <<"f">>, file |-> <<"a">>, defs |-> <<PROJECT_TOKEN \o Slash \o <<"a">>>>]

SymG == [name |-> <<"g">>, file |-> <<"a">>, defs |-> <<>>]

SymFinB == [name |-> <<"f">>, file |-> <<"b">>, defs |-> <<PROJECT_TOKEN \o Slash \o <<"a">>>>]

SymGinB == [name |-> <<"g">>, file |-> <<"b">>, defs |-> <<>>]

SymC == [name |-> <<"c">>, file |-> <<"a">>, defs |-> <<UsrMarker \o <<"c">>>>]

SymInUsr == [name |-> <<"c">>, file |-> <<"u", "s", "r", "/", "c">>,
             defs |-> <<PROJECT_TOKEN \o Slash \o <<"u", "s", "r", "/", "c">>>>]

SymNoName == [name |-> None, file |-> <<"a">>, defs |-> <<>>]

PrunedTables ==
    { <<>>,
      <<SymF, SymG>>,
      <<SymG, SymF>>,
      <<SymF, SymFinB>>,
      <<SymF, SymG, SymC>>,
      <<SymNoName, SymG, SymF>>,
      <<SymG, SymGinB, SymF, SymFinB>>,
      <<SymF, SymInUsr>> }

\* Endpoint strings of function edges
EpF == <<"a", ":", "f">>
EpG == <<"a", ":", "g">>
EpGPrefixed == <<"P", "R", "O", "J", "E", "C", "T", "/", "a", ":", "g">>
EpFinB == <<"b", ":", "f">>
EpUnindexed == <<"z", ":", "h">>
EpLib == <<"/", "u", "s", "r", "/", "x", ":", "b">>
EpLibEmbedded == <<"/", "o", "/", "u", "s", "r", "/", "x", ":", "b">>
EpLibRelative == <<".", ".", "/", "u", "s", "r", "/", "x", ":", "b">>
EpLibC == <<"/", "u", "s", "r", "/", "c", ":", "c">>
EpInUsr == <<"P", "R", "O", "J", "E", "C", "T", "/", "u", "s", "r", "/", "c", ":", "c">>
EpNoColon == <<"j", "u", "n", "k">>
EpNoName == <<"a", ":">>

Edge(s, d) == [src |-> s, dst |-> d]

\* Function edges: between project symbols in both spellings, to and from a
\* relative file that is not indexed, to and from library files in their
\* absolute and relative spellings, to a project file in a directory usr, and
\* malformed ones
EdgePool ==
    { Edge(EpF, EpG), Edge(EpGPrefixed, EpF), Edge(EpFinB, EpG),
      Edge(EpF, EpUnindexed), Edge(EpUnindexed, EpG),
      Edge(EpF, EpLib), Edge(EpLib, EpG), Edge(EpG, EpLibEmbedded),
      Edge(EpLibRelative, EpF), Edge(EpF, EpLibC), Edge(EpF, EpInUsr),
      Edge(EpNoColon, EpF), Edge(EpF, EpNoName), Edge(None, EpG) }

\* Bound of the integrator's input: the length of the edge list
MaxDepEdges == 2

InitIntegrate ==
    /\ pruned \in PrunedTables
    /\ deps \in SeqsUpTo(EdgePool, MaxDepEdges)
    /\ by_id = <<>>
    /\ by_file_name = <<>>
    /\ externals = <<>>
    /\ ei = 0
    /\ result = <<>>
    /\ ipc = "start"
    /\ IdleTopo
    /\ IdleDeps
    /\ IdleMain
    /\ IdleHover
    /\ IdleRange
    /\ IdleEnclosing
    /\ IdleRefs
    /\ IdleRoot
    /\ IdlePipe
    /\ IdleNorm

\* line 149-150
IntegrateStart ==
    /\ ipc = "start"
    /\ LET idx == BuildIndices([by_id |-> <<>>, by_file_name |-> <<>>], pruned)
       IN /\ by_id' = idx.by_id
          /\ by_file_name' = idx.by_file_name
    /\ externals' = <<>>
    /\ ei' = 1
    /\ ipc' = "wire"
    /\ UNCHANGED <<pruned, deps, result, topoVars, depsVars, mainVars, hoverVars, rangeVars, enclosingVars, refsVars, rootVars, pipeVars, normVars>>

\* lines 182-209: one iteration of the loop over function_edges
WireEdge ==
    /\ ipc = "wire"
    /\ ei <= Len(deps)
    /\ LET st == WireOne([by_id |-> by_id, externals |-> externals], deps[ei], by_file_name)
       IN /\ by_id' = st.by_id
          /\ externals' = st.externals
    /\ ei' = ei + 1
    /\ UNCHANGED <<pruned, deps, by_file_name, result, ipc, topoVars, depsVars, mainVars, hoverVars, rangeVars, enclosingVars, refsVars, rootVars, pipeVars, normVars>>

\* lines 211-223
IntegrateFinish ==
    /\ ipc = "wire"
    /\ ei > Len(deps)
    /\ result' = [symbols |-> SymbolsOut(by_id), externals |-> ExternalsOut(externals)]
    /\ ipc' = "done"
    /\ UNCHANGED <<pruned, deps, by_id, by_file_name, externals, ei, topoVars, depsVars, mainVars, hoverVars, rangeVars, enclosingVars, refsVars, rootVars, pipeVars, normVars>>

\* integrate(pruned, deps) as a whole: the result of the run on these inputs
RECURSIVE WireAll(_, _, _)
WireAll(st, edges, index) ==
    IF edges = <<>> THEN st ELSE WireAll(WireOne(st, Head(edges), index), Tail(edges), index)

Integrate(p, d) ==
    LET idx == BuildIndices([by_id |-> <<>>, by_file_name |-> <<>>], p)
        st == WireAll([by_id |-> idx.by_id, externals |-> <<>>], d, idx.by_file_name)
    IN [symbols |-> SymbolsOut(st.by_id), externals |-> ExternalsOut(st.externals)]

NextIntegrate == IntegrateStart \/ WireEdge \/ IntegrateFinish

SpecIntegrate == InitIntegrate /\ [][NextIntegrate]_vars /\ WF_vars(NextIntegrate)


(***************************************************************************)
(* lsp_build_deps.py                                                       *)
(***************************************************************************)

\* the lookahead window of looks_like_call_context, the width below which a
\* one-line caller of the callee's name counts as an import alias, the weight
\* of a line in the span score, and the defaults of a range without start/end
CallWindow == 64

AliasWidth == 64

SpanLineWeight == 10000

MissingStart == 1000000000

MissingEnd == -1

\* kinds of the LSP: method, function, variable
KindMethod == 6

KindFunction == 12

KindVariable == 13

\* a range with start (sl, sc) and end (el, ec); `has` is false for a symbol
\* without a range
Rng(sl, sc, el, ec) ==
    [has |-> TRUE, hs |-> TRUE, he |-> TRUE, sl |-> sl, sc |-> sc, el |-> el, ec |-> ec]

\* a range whose "start" is absent; a range whose "end" is absent
NoStart(el, ec) ==
    [has |-> TRUE, hs |-> FALSE, he |-> TRUE, sl |-> 0, sc |-> 0, el |-> el, ec |-> ec]

NoEnd(sl, sc) ==
    [has |-> TRUE, hs |-> TRUE, he |-> FALSE, sl |-> sl, sc |-> sc, el |-> 0, ec |-> 0]

NoStartNoEnd ==
    [has |-> TRUE, hs |-> FALSE, he |-> FALSE, sl |-> 0, sc |-> 0, el |-> 0, ec |-> 0]

\* Mutant: containment in the box of lines and of characters
PosInRangeBox(line, ch, rng) ==
    /\ rng.has /\ rng.hs /\ rng.he
    /\ rng.sl <= line /\ line <= rng.el
    /\ rng.sc <= ch /\ ch < rng.ec

\* pos_in_range(line, ch, rng)
PosInRange(line, ch, rng) ==
    LET sl == IF ~rng.has \/ ~rng.hs THEN MissingStart ELSE rng.sl
        sc == IF ~rng.has \/ ~rng.hs THEN MissingStart ELSE rng.sc
        el == IF ~rng.has \/ ~rng.he THEN MissingEnd ELSE rng.el
        ec == IF ~rng.has \/ ~rng.he THEN MissingEnd ELSE rng.ec
    IN IF line < sl \/ line > el THEN FALSE
       ELSE IF line = sl /\ ch < sc THEN FALSE
       ELSE IF line = el /\ ch >= ec THEN FALSE
       ELSE TRUE

\* symbol_span(sym)
SymbolSpan(sym) ==
    LET r == sym.range
        s == r.has /\ r.hs
        e == r.has /\ r.he
    IN [sl |-> IF s THEN r.sl ELSE 0, sc |-> IF s THEN r.sc ELSE 0,
        el |-> IF e THEN r.el ELSE 0, ec |-> IF e THEN r.ec ELSE 0]

\* build_symbol_index(files): file -> symbols, a later entry of the same file wins
RECURSIVE BuildSymbolIndex(_, _)
BuildSymbolIndex(idx, files) ==
    IF files = <<>> THEN idx
    ELSE LET fe == Head(files)
         IN BuildSymbolIndex(IF IsStr(fe.file) THEN Put(idx, fe.file, fe.symbols) ELSE idx,
                             Tail(files))

\* list(index.keys()): the file names in the order of their first entry
RECURSIVE IndexKeys(_)
IndexKeys(files) ==
    IF files = <<>> THEN <<>>
    ELSE LET rest == IndexKeys(SubSeq(files, 1, Len(files) - 1))
             f == files[Len(files)].file
         IN IF IsStr(f) /\ f \notin Range(rest) THEN Append(rest, f) ELSE rest

\* Path(p).name: the text after the last slash
Basename(path) ==
    IF Contains(path, Slash)
    THEN SubSeq(path, (CHOOSE i \in Occurrences(path, Slash) :
                           \A j \in Occurrences(path, Slash) : j <= i) + 1, Len(path))
    ELSE path

\* the first element of keys that satisfies Test, None without one
FirstKey(keys, Test(_)) ==
    IF \E i \in 1..Len(keys) : Test(keys[i])
    THEN keys[CHOOSE i \in 1..Len(keys) : Test(keys[i]) /\ \A j \in 1..(i - 1) : ~Test(keys[j])]
    ELSE None

\* normalize_ref_file(ref_file, index_keys)
NormalizeRefFile(ref_file, keys) ==
    IF ref_file \in Range(keys) THEN ref_file
    ELSE LET Suffix(k) == EndsWith(k, ref_file) \/ EndsWith(ref_file, k)
             SameBase(k) == Basename(k) = Basename(ref_file)
         IN IF FirstKey(keys, Suffix) # None THEN FirstKey(keys, Suffix)
            ELSE FirstKey(keys, SameBase)

\* The files on disk: path -> lines.  /r/a holds f, /r/b holds g and the nested
\* h, /r/c holds nothing but an import; /r/gone does not exist.
Spaces(n) == [i \in 1..n |-> " "]

FileSystem ==
    (<<"/", "r", "/", "a">> :> << <<"d", "e", "f", " ", "f", "(", ")", ":">>,
                       <<" ", "f", "(", ")">>,
                       <<"d", "e", "f", " ", "f", "(", ")", ":">>,
                       <<" ", "f", "(", ")">> >>)
    @@ (<<"/", "r", "/", "b">> :> << <<"f", "r", "o", "m", " ", "a", " ", "i", "m", "p", "o", "r", "t", " ", "f", ";", "f", "(", ")">>,
                       <<"d", "e", "f", " ", "g", "(", ")", ":">>,
                       <<" ", "f", "(", ")">>,
                       <<" ", "f">>,
                       <<" ", "f", "r", "o", "m", " ", "a", " ", "i", "m", "p", "o", "r", "t", " ", "f", ";", "f", "(", ")">>,
                       <<" ", "d", "e", "f", " ", "h", "(", ")", ":">>,
                       <<" ", " ", "f", "(", ")">>,
                       <<" ", "f">> \o Spaces(CallWindow - 1) \o <<"(">>,
                       <<" ", "f", "(", ")">> >>)
    @@ (<<"/", "r", "/", "c">> :> << <<"f", "r", "o", "m", " ", "a", " ", "i", "m", "p", "o", "r", "t", " ", "f">> >>)

\* get_line_text(abs_path, line): the line of that 0-based number, None when
\* the path is no string, the file does not exist or it has no such line
GetLineText(abs_path, line) ==
    IF ~IsStr(abs_path) \/ abs_path \notin DOMAIN FileSystem THEN None
    ELSE IF line < 0 \/ line >= Len(FileSystem[abs_path]) THEN None
    ELSE FileSystem[abs_path][line + 1]

\* str.strip()
RECURSIVE LStrip(_)
LStrip(t) == IF t # <<>> /\ Head(t) = " " THEN LStrip(Tail(t)) ELSE t

Strip(t) == Reversed(LStrip(Reversed(LStrip(t))))

\* Mutant: only `import ...` lines are taken for imports
LooksLikeImportOnly(line_text) ==
    IF line_text = None \/ line_text = <<>> THEN FALSE
    ELSE StartsWith(Strip(line_text), <<"i", "m", "p", "o", "r", "t", " ">>)

\* looks_like_import(line_text)
LooksLikeImport(line_text) ==
    IF line_text = None \/ line_text = <<>> THEN FALSE
    ELSE LET t == Strip(line_text)
         IN StartsWith(t, <<"i", "m", "p", "o", "r", "t", " ">>) \/ StartsWith(t, <<"f", "r", "o", "m", " ">>)

\* Mutant: a line that cannot be read is no call context
LooksLikeCallContextStrict(line_text, col) ==
    IF line_text = None THEN FALSE
    ELSE \E i \in (col + 1)..Min(col + CallWindow, Len(line_text)) : line_text[i] = "("

\* looks_like_call_context(line_text, col): "(" in line_text[col: col + 64];
\* a line that could not be read passes (col is an integer in every scan)
LooksLikeCallContext(line_text, col) ==
    IF line_text = None THEN TRUE
    ELSE \E i \in (col + 1)..Min(col + CallWindow, Len(line_text)) : line_text[i] = "("

\* the sort key of find_enclosing_symbol
SortKey(sym) ==
    LET sp == SymbolSpan(sym)
    IN [pref |-> IF sym.kind \in {KindMethod, KindFunction} THEN 0 ELSE 1,
        span_score |-> (sp.el - sp.sl) * SpanLineWeight + (sp.ec - sp.sc)]

KeyLe(a, b) == a.pref < b.pref \/ (a.pref = b.pref /\ a.span_score <= b.span_score)

\* find_enclosing_symbol(symbols, line, ch): the index in `symbols` of the first
\* of the candidates with the least key (the sort is stable), 0 without a
\* candidate
FindEnclosingSymbol(syms, line, ch) ==
    LET cand == {i \in 1..Len(syms) : PosInRange(line, ch, syms[i].range)}
    IN IF cand = {} THEN 0
       ELSE CHOOSE i \in cand :
               \A j \in cand : /\ KeyLe(SortKey(syms[i]), SortKey(syms[j]))
                               /\ (j < i => ~KeyLe(SortKey(syms[j]), SortKey(syms[i])))

Unknown == <<"<", "u", "n", "k", "n", "o", "w", "n", ">">>

\* Mutant: the callee is attributed to the file it was observed in
CanonicalizeCalleeObserved(sym, fallback_file) ==
    IF ~IsStr(sym.name) THEN [file |-> fallback_file, name |-> Unknown]
    ELSE [file |-> fallback_file, name |-> sym.name]

\* canonicalize_callee(sym, fallback_file); a definition is
\* [relativePath, absolutePath]
CanonicalizeCallee(sym, fallback_file) ==
    IF ~IsStr(sym.name) THEN [file |-> fallback_file, name |-> Unknown]
    ELSE IF sym.definitions = <<>> THEN [file |-> fallback_file, name |-> sym.name]
    ELSE LET d == sym.definitions[1]
             def_path == IF IsStr(d.relativePath) /\ d.relativePath # <<>>
                         THEN d.relativePath ELSE d.absolutePath
         IN IF IsStr(def_path) THEN [file |-> def_path, name |-> sym.name]
            ELSE [file |-> fallback_file, name |-> sym.name]

\* lines 184-186: the callee id of a symbol of file callee_file_rel
CalleeFileKey(sym, callee_file_rel, keys) ==
    LET canon == CanonicalizeCallee(sym, callee_file_rel)
    IN IF NormalizeRefFile(canon.file, keys) # None
       THEN NormalizeRefFile(canon.file, keys) ELSE canon.file

CalleeId(sym, callee_file_rel, keys) ==
    CalleeFileKey(sym, callee_file_rel, keys) \o Colon
        \o CanonicalizeCallee(sym, callee_file_rel).name

\* the positions [fi, si, ri] of the references in the order of the three
\* nested loops (lines 177-192); a file entry without a string name is skipped
AllRefs(files) ==
    LET RefsOfSym(fi, si) ==
            [ri \in 1..Len(files[fi].symbols[si].references) |-> [fi |-> fi, si |-> si, ri |-> ri]]
        RECURSIVE RefsOfFile(_, _)
        RefsOfFile(fi, si) ==
            IF si > Len(files[fi].symbols) THEN <<>>
            ELSE RefsOfSym(fi, si) \o RefsOfFile(fi, si + 1)
        RECURSIVE RefsFrom(_)
        RefsFrom(fi) ==
            IF fi > Len(files) THEN <<>>
            ELSE (IF IsStr(files[fi].file) THEN RefsOfFile(fi, 1) ELSE <<>>) \o RefsFrom(fi + 1)
    IN RefsFrom(1)

\* Mutant: the test of line 241 never finds the two ends equal
NeverSameEndpoint(caller_id, callee_id) == FALSE

\* line 241: caller_id != callee_id fails
SameEndpoint(caller_id, callee_id) == caller_id = callee_id

\* lines 193-247 for one reference of symbol sym of file callee_file_rel: the
\* edges it appends, none or one [src, dst, caller_file, callee_file].  A
\* reference is [relativePath, absolutePath, line, col] with the start of its
\* range, integers in every scan.
EdgesOfRef(files, callee_file_rel, sym, ref) ==
    LET keys == IndexKeys(files)
        index == BuildSymbolIndex(<<>>, files)
        callee_name == CanonicalizeCallee(sym, callee_file_rel).name
        callee_file_key == CalleeFileKey(sym, callee_file_rel, keys)
        callee_id == CalleeId(sym, callee_file_rel, keys)
        ref_file == IF IsStr(ref.relativePath) /\ ref.relativePath # <<>>
                    THEN ref.relativePath ELSE ref.absolutePath
        text == GetLineText(ref.absolutePath, ref.line)
        ref_file_key == NormalizeRefFile(ref_file, keys)
        syms_in_ref_file == index[ref_file_key]
        ci == FindEnclosingSymbol(syms_in_ref_file, ref.line, ref.col)
        caller_sym == syms_in_ref_file[ci]
        sp == SymbolSpan(caller_sym)
        caller_id == ref_file_key \o Colon \o caller_sym.name
    IN IF ~IsStr(ref_file) THEN <<>>
       ELSE IF LooksLikeImport(text) THEN <<>>
       ELSE IF sym.range.has /\ ref.line = sym.range.sl THEN <<>>
       ELSE IF ~LooksLikeCallContext(text, ref.col) THEN <<>>
       ELSE IF ref_file_key = None \/ ref_file_key = <<>> THEN <<>>
       ELSE IF syms_in_ref_file = <<>> THEN <<>>
       ELSE IF ci = 0 THEN <<>>
       ELSE IF caller_sym.name = callee_name /\ sp.el - sp.sl = 0 /\ sp.ec - sp.sc < AliasWidth
            THEN <<>>
       ELSE IF SameEndpoint(caller_id, callee_id) THEN <<>>
       ELSE << [src |-> caller_id, dst |-> callee_id,
                caller_file |-> ref_file_key, callee_file |-> callee_file_key] >>

\* Mutant: the file pair of every function edge is recorded
AddFileEdgeAlways(S, e) == S \cup {<<e.caller_file, e.callee_file>>}

\* lines 243-247: the file-level edge of a function edge that crosses files
AddFileEdge(S, e) ==
    IF e.caller_file # e.callee_file
    THEN S \cup {<<e.caller_file, e.callee_file>>}
    ELSE S

\* Mutant: no deduplication
KeepAll(edges) == edges

\* lines 250-256: the first edge of every (src, dst) pair, in order
RECURSIVE Dedup(_)
Dedup(edges) ==
    IF edges = <<>> THEN <<>>
    ELSE LET rest == Dedup(SubSeq(edges, 1, Len(edges) - 1))
             e == edges[Len(edges)]
         IN IF e \in Range(rest) THEN rest ELSE Append(rest, e)

PairLt(a, b) == StrLt(a[1], b[1]) \/ (a[1] = b[1] /\ StrLt(a[2], b[2]))

\* line 260: sorted(file_edges) as {src, dst} records
RECURSIVE SortedFileEdges(_)
SortedFileEdges(S) ==
    IF S = {} THEN <<>>
    ELSE LET m == CHOOSE x \in S : \A y \in S : x = y \/ PairLt(x, y)
         IN <<[src |-> m[1], dst |-> m[2]]>> \o SortedFileEdges(S \ {m})

\* Input of the edge builder.  File a declares f (at line 0 or at line 2), file
\* b declares g and, nested in it, h; file c, when scanned, only imports f: its
\* symbol f is the import alias, defined in a, with the call in g among its
\* references.
Ref(rel, abs, line, col) == [relativePath |-> rel, absolutePath |-> abs, line |-> line, col |-> col]

Def(rel, abs) == [relativePath |-> rel, absolutePath |-> abs]

PathA == <<"/", "r", "/", "a">>
PathB == <<"/", "r", "/", "b">>
PathC == <<"/", "r", "/", "c">>
PathGone == <<"/", "r", "/", "g", "o", "n", "e">>

\* references to f: calls in g (two) and in h, an import inside g, a bare mention, a
\* mention with its parenthesis beyond the window, one in a file that is gone,
\* one past the end of its file, a call of f in f, a call given by its absolute
\* path only, the import that is all of file c, and one outside every symbol
\* of b in a file that is gone
RefPool ==
    { Ref(<<"b">>, PathB, 2, 1), Ref(<<"b">>, PathB, 6, 2), Ref(<<"b">>, PathB, 4, 15),
      Ref(<<"b">>, PathB, 3, 1), Ref(<<"b">>, PathB, 7, 1), Ref(<<"b">>, PathGone, 3, 1),
      Ref(<<"b">>, PathB, 9, 1), Ref(<<"a">>, PathA, 1, 1), Ref(None, PathB, 2, 1),
      Ref(<<"c">>, PathC, 0, 14), Ref(<<"b">>, PathB, 8, 1),
      Ref(<<"b">>, PathGone, 0, 1) }

\* no definition, a definition in the caller's file b, a definition given by
\* the absolute path of a, the definition in a as the import alias of file c
\* records it
DefChoices == { <<>>, <<Def(<<"b">>, PathB)>>, <<Def(None, PathA)>>, <<Def(<<"a">>, PathA)>> }

DefLines == {0, 2}

Sym(name, kind, range, defs, refs) ==
    [name |-> name, kind |-> kind, range |-> range, definitions |-> defs, references |-> refs]

FileB ==
    [file |-> <<"b">>,
     symbols |-> << Sym(<<"g">>, KindFunction, Rng(1, 0, 10, 0), <<>>, <<>>),
                    Sym(<<"h">>, KindFunction, Rng(5, 1, 7, 0), <<>>, <<>>) >>]

FileC ==
    [file |-> <<"c">>,
     symbols |-> << Sym(<<"f">>, KindVariable, Rng(0, 14, 0, 15), <<Def(<<"a">>, PathA)>>,
                        <<Ref(<<"b">>, PathB, 2, 1)>>) >>]

\* Bound of the edge builder's input: the number of references to f
MaxRefs == 2

InitDeps ==
    /\ \E dl \in DefLines, defs \in DefChoices, refs \in SeqsUpTo(RefPool, MaxRefs),
             more \in {<<>>, <<FileC>>} :
          data = << [file |-> <<"a">>,
                     symbols |-> <<Sym(<<"f">>, KindFunction, Rng(dl, 0, dl + 2, 0), defs, refs)>>],
                    FileB >> \o more
    /\ cursor = 1
    /\ func_edges = <<>>
    /\ func_edge_refs = <<>>
    /\ file_edges = {}
    /\ deps_ret = <<>>
    /\ dpc = "scan"
    /\ IdleTopo
    /\ IdleIntegrate
    /\ IdleMain
    /\ IdleHover
    /\ IdleRange
    /\ IdleEnclosing
    /\ IdleRefs
    /\ IdleRoot
    /\ IdlePipe
    /\ IdleNorm

\* lines 192-247: the body of the innermost loop for the next reference
ScanRef ==
    /\ dpc = "scan"
    /\ cursor <= Len(AllRefs(data))
    /\ LET pos == AllRefs(data)[cursor]
           fe == data[pos.fi]
           sym == fe.symbols[pos.si]
           es == EdgesOfRef(data, fe.file, sym, sym.references[pos.ri])
       IN IF Len(es) = 0
          THEN UNCHANGED <<func_edges, func_edge_refs, file_edges>>
          ELSE /\ func_edges' = Append(func_edges, [src |-> es[1].src, dst |-> es[1].dst])
               /\ func_edge_refs' = Append(func_edge_refs, pos)
               /\ file_edges' = AddFileEdge(file_edges, es[1])
    /\ cursor' = cursor + 1
    /\ UNCHANGED <<data, deps_ret, dpc, topoVars, intVars, mainVars, hoverVars, rangeVars, enclosingVars, refsVars, rootVars, pipeVars, normVars>>

\* lines 249-261
DepsFinish ==
    /\ dpc = "scan"
    /\ cursor > Len(AllRefs(data))
    /\ deps_ret' = [function_edges |-> Dedup(func_edges),
                    file_edges |-> SortedFileEdges(file_edges)]
    /\ dpc' = "done"
    /\ UNCHANGED <<data, cursor, func_edges, func_edge_refs, file_edges, topoVars, intVars, mainVars, hoverVars, rangeVars, enclosingVars, refsVars, rootVars, pipeVars, normVars>>

NextDeps == ScanRef \/ DepsFinish

SpecDeps == InitDeps /\ [][NextDeps]_vars /\ WF_vars(NextDeps)

(***************************************************************************)
(* Properties of topo_order                                                *)
(***************************************************************************)

\* the project ids of the input and the ordering edges between them
ProjectIds == {symbols[i].id : i \in {j \in 1..Len(symbols) : ~StartsWith(symbols[j].id, <<"/">>)}}

TopoEdges ==
    {e \in ProjectIds \X ProjectIds :
        \E i \in 1..Len(symbols) : symbols[i].id = e[1] /\ e[2] \in Range(symbols[i].calls)}

Successors(S) == {e[2] : e \in {d \in TopoEdges : d[1] \in S}}

\* the nodes a path of 1..k edges leads to from the nodes of S
RECURSIVE ReachWithin(_, _)
ReachWithin(S, k) ==
    IF k = 0 THEN {} ELSE Successors(S) \cup ReachWithin(Successors(S), k - 1)

ReachableFrom(a) == ReachWithin({a}, Cardinality(ProjectIds))

OnCycle(a) == a \in ReachableFrom(a)

Pos(v) == PosOf(topo_ret, v)

\* C2: for every ordering edge a -> b with neither a nor b on a cycle, a comes
\* before b in the non-reversed result and after b in the reversed one, also
\* when a and b are reachable from a cycle.
C2_SoundOffCycles ==
    tpc = "done" =>
        \A e \in TopoEdges :
            (~OnCycle(e[1]) /\ ~OnCycle(e[2])) =>
                IF reverse THEN Pos(e[1]) > Pos(e[2]) ELSE Pos(e[1]) < Pos(e[2])

\* what is left to do: the build, one iteration per project id not yet
\* extracted, and the final step
TopoVariant ==
    CASE tpc = "start" -> Cardinality(ProjectIds) + 2
      [] tpc = "kahn"  -> Cardinality(ProjectIds) - Len(order) + 1
      [] OTHER         -> 0

\* C9: topo_order terminates (every step decreases a variant that is never
\* negative; the guards of the loop body and of the final step are
\* complementary, so a step is possible until it returns), and its result
\* holds every project id of the input exactly once and nothing else,
\* whatever the graph.
C9_Permutation ==
    [][/\ TopoVariant' < TopoVariant
       /\ TopoVariant' >= 0
       /\ tpc' = "done" =>
            /\ Range(topo_ret') = ProjectIds
            /\ Len(topo_ret') = Cardinality(ProjectIds)]_vars

\* a finished run on a graph with a cycle, a self-call, a repeated callee and an
\* external callee or an absent one
C9_Witness ==
    /\ tpc = "done"
    /\ \E a \in ProjectIds : OnCycle(a)
    /\ \E i \in 1..Len(symbols) :
          \/ \E c \in Range(symbols[i].calls) : Count(symbols[i].calls, c) > 1
          \/ \E c \in Range(symbols[i].calls) : c \notin ProjectIds

PureCycleABC ==
    /\ ProjectIds = {<<"a">>, <<"b">>, <<"c">>}
    /\ TopoEdges = {<< <<"a">>, <<"b">> >>, << <<"b">>, <<"c">> >>, << <<"c">>, <<"a">> >>}

\* C10: in the non-reversed result the nodes whose in-degree never reaches zero
\* come after every node Kahn's loop extracted, in ascending id order; the pure
\* cycle a -> b -> c -> a gives [a, b, c].
C10_LeftoversLastAscending ==
    (tpc = "done" /\ ~reverse) =>
        LET stuck == {v \in ProjectIds : in_deg[v] > 0}
        IN /\ \A s \in stuck :
                /\ s \in Range(topo_ret)
                /\ \A k \in ProjectIds \ stuck : Pos(k) < Pos(s)
                /\ \A t \in stuck : StrLt(s, t) => Pos(s) < Pos(t)
           /\ PureCycleABC => topo_ret = << <<"a">>, <<"b">>, <<"c">> >>

\* a finished run on the pure cycle
C10_Witness ==
    /\ tpc = "done"
    /\ ~reverse
    /\ PureCycleABC
    /\ Len(order) = 3

(***************************************************************************)
(* Properties of integrate                                                 *)
(***************************************************************************)

OutSymbolIds == {result.symbols[i].id : i \in 1..Len(result.symbols)}

OutExternalIds == {result.externals[i].id : i \in 1..Len(result.externals)}

\* C1: after integrate every id in a calls or calledBy list of an output symbol
\* is the id of an output symbol or of an output external, also for an endpoint
\* that is a bare relative or PROJECT-prefixed file:name matching no indexed
\* symbol.
C1_NoDangling ==
    ipc = "done" =>
        \A i \in 1..Len(result.symbols) :
            Range(result.symbols[i].calls) \cup Range(result.symbols[i].calledBy)
                \subseteq OutSymbolIds \cup OutExternalIds

\* an endpoint '<file>:<name>' as written: the text before and after its last colon
WrittenFile(ep) == SubSeq(ep, 1, LastColon(ep) - 1)

WrittenName(ep) == SubSeq(ep, LastColon(ep) + 1, Len(ep))

WellFormed(ep) == IsStr(ep) /\ Contains(ep, Colon) /\ WrittenName(ep) # <<>>

\* the absolute endpoints of the edges that have two well-formed ends
AbsoluteEndpoints ==
    {ep \in UNION {{deps[k].src, deps[k].dst} :
                       k \in {j \in 1..Len(deps) : WellFormed(deps[j].src) /\ WellFormed(deps[j].dst)}} :
        StartsWith(ep, Slash)}

\* C8: the output externals have pairwise distinct ids, none of them the id of
\* an output symbol, and an absolute endpoint '<absPath>:<name>' that matches no
\* project symbol has exactly one entry {id: '<absPath>:<name>', absolutePath:
\* '<absPath>', name: '<name>'}, however many edges mention it, as src or dst.
C8_ExternalsOnce ==
    ipc = "done" =>
        /\ \A i, j \in 1..Len(result.externals) :
              i # j => result.externals[i].id # result.externals[j].id
        /\ OutExternalIds \cap OutSymbolIds = {}
        /\ \A ep \in AbsoluteEndpoints :
              ep \notin OutSymbolIds =>
                  /\ Cardinality({i \in 1..Len(result.externals) : result.externals[i].id = ep}) = 1
                  /\ \A i \in 1..Len(result.externals) :
                        result.externals[i].id = ep =>
                            result.externals[i] = [id |-> ep, absolutePath |-> WrittenFile(ep),
                                                   name |-> WrittenName(ep)]

(***************************************************************************)
(* lsp_prune.py: prune_hover                                               *)
(***************************************************************************)

\* An entry of a hover list: a dict, with or without the key "range", or a
\* value that is no dict.  A hover payload is a list of entries, a single
\* dict, or anything else (None, a string).
HoverEntry(isdict, has_range) ==
    [isdict |-> isdict, contents |-> IF isdict THEN "doc" ELSE "text", has_range |-> has_range]

HoverEntries == {HoverEntry(TRUE, TRUE), HoverEntry(TRUE, FALSE), HoverEntry(FALSE, FALSE)}

\* Bound of the hover payload: the length of a hover list
MaxHover == 3

HoverPayloads ==
    {[kind |-> "list", items |-> l] : l \in SeqsUpTo(HoverEntries, MaxHover)}
    \cup {[kind |-> "dict", items |-> <<e>>] : e \in {HoverEntry(TRUE, TRUE), HoverEntry(TRUE, FALSE)}}
    \cup {[kind |-> "other", items |-> <<>>]}

\* hv.pop("range", None)
PopRange(hv) == [hv EXCEPT !.has_range = FALSE]

InitHover ==
    /\ hv_list \in HoverPayloads
    /\ hv_orig = hv_list
    /\ hi = 0
    /\ hv_ret = <<>>
    /\ ppc = "start"
    /\ IdleTopo
    /\ IdleIntegrate
    /\ IdleDeps
    /\ IdleMain
    /\ IdleRange
    /\ IdleEnclosing
    /\ IdleRefs
    /\ IdleRoot
    /\ IdlePipe
    /\ IdleNorm

\* lines 59-60: the argument is a list
PruneHoverList ==
    /\ ppc = "start"
    /\ hv_list.kind = "list"
    /\ hi' = 1
    /\ hv_ret' = [kind |-> "list", items |-> <<>>]
    /\ ppc' = "loop"
    /\ UNCHANGED <<hv_list, hv_orig, topoVars, intVars, depsVars, mainVars, rangeVars, enclosingVars, refsVars, rootVars, pipeVars, normVars>>

\* lines 61-64: one entry of the list; the dict that loses its key is the
\* entry of the argument itself, and it is that object the result holds
PruneHoverEntry ==
    /\ ppc = "loop"
    /\ hi <= Len(hv_list.items)
    /\ LET hv == IF hv_list.items[hi].isdict THEN PopRange(hv_list.items[hi])
                 ELSE hv_list.items[hi]
       IN /\ hv_list' = [hv_list EXCEPT !.items[hi] = hv]
          /\ hv_ret' = [hv_ret EXCEPT !.items = Append(@, hv)]
    /\ hi' = hi + 1
    /\ UNCHANGED <<hv_orig, ppc, topoVars, intVars, depsVars, mainVars, rangeVars, enclosingVars, refsVars, rootVars, pipeVars, normVars>>

\* line 65
PruneHoverReturn ==
    /\ ppc = "loop"
    /\ hi > Len(hv_list.items)
    /\ ppc' = "done"
    /\ UNCHANGED <<hv_list, hv_orig, hi, hv_ret, topoVars, intVars, depsVars, mainVars, rangeVars, enclosingVars, refsVars, rootVars, pipeVars, normVars>>

\* lines 66-68: the argument is a dict
PruneHoverDict ==
    /\ ppc = "start"
    /\ hv_list.kind = "dict"
    /\ hv_list' = [hv_list EXCEPT !.items[1] = PopRange(@)]
    /\ hv_ret' = hv_list'
    /\ ppc' = "done"
    /\ UNCHANGED <<hv_orig, hi, topoVars, intVars, depsVars, mainVars, rangeVars, enclosingVars, refsVars, rootVars, pipeVars, normVars>>

\* lines 69-70: anything else is returned as it is
PruneHoverOther ==
    /\ ppc = "start"
    /\ hv_list.kind = "other"
    /\ hv_ret' = hv_list
    /\ ppc' = "done"
    /\ UNCHANGED <<hv_list, hv_orig, hi, topoVars, intVars, depsVars, mainVars, rangeVars, enclosingVars, refsVars, rootVars, pipeVars, normVars>>

NextHover ==
    PruneHoverList \/ PruneHoverEntry \/ PruneHoverReturn \/ PruneHoverDict \/ PruneHoverOther

SpecHover == InitHover /\ [][NextHover]_vars /\ WF_vars(NextHover)

\* ---------------------------------------------------------------------
\* Properties of build_dependencies
\* ---------------------------------------------------------------------

RefAt(pos) == data[pos.fi].symbols[pos.si].references[pos.ri]

SymAt(pos) == data[pos.fi].symbols[pos.si]

\* the reference of the k-th raw function edge
RefOfEdge(k) == RefAt(func_edge_refs[k])

\* the references to f that the scan was given
RefsOfF == data[1].symbols[1].references

\* the references the scan has been through
Scanned == {AllRefs(data)[p] : p \in 1..(cursor - 1)}

IdAF == <<"a", ":", "f">>
IdBG == <<"b", ":", "g">>

\* C3: every function edge returned by build_dependencies has src # dst,
\* whatever the input, a call of f inside f and a callee defined in the
\* caller's file included.
C3_NoSelfEdges ==
    dpc = "done" =>
        \A k \in 1..Len(deps_ret.function_edges) :
            deps_ret.function_edges[k].src # deps_ret.function_edges[k].dst

\* a finished scan that went through the call of f in the body of f, f being
\* its own canonical definition, and returned the edge of a call in g
C3_Witness ==
    /\ dpc = "done"
    /\ Ref(<<"a">>, PathA, 1, 1) \in Range(RefsOfF)
    /\ data[1].symbols[1].range.sl = 0
    /\ CalleeId(data[1].symbols[1], <<"a">>, IndexKeys(data)) = IdAF
    /\ [src |-> IdBG, dst |-> IdAF] \in Range(deps_ret.function_edges)

\* C4: the returned function_edges hold no (src, dst) pair twice, and they are
\* in the order in which each pair was first produced by the scan.
FirstAt(e) == CHOOSE k \in 1..Len(func_edges) : func_edges[k] = e /\ \A j \in 1..(k - 1) : func_edges[j] # e

C4_DedupFirstSeen ==
    dpc = "done" =>
        LET fe == deps_ret.function_edges
        IN /\ \A i, j \in 1..Len(fe) :
                 (fe[i].src = fe[j].src /\ fe[i].dst = fe[j].dst) => i = j
           /\ Range(fe) = Range(func_edges)
           /\ \A i, j \in 1..Len(fe) : i < j => FirstAt(fe[i]) < FirstAt(fe[j])

\* a finished scan that produced a pair, then another pair, then the first
\* pair again
C4_Witness ==
    /\ dpc = "done"
    /\ \E i, j, k \in 1..Len(func_edges) :
          i < j /\ j < k /\ func_edges[i] = func_edges[k] /\ func_edges[i] # func_edges[j]
    /\ Len(deps_ret.function_edges) >= 2

\* the source line of a reference, as the disk holds it
IsReadable(ref) ==
    /\ ref.absolutePath \in DOMAIN FileSystem
    /\ ref.line \in 0..(Len(FileSystem[ref.absolutePath]) - 1)

LineOf(ref) == FileSystem[ref.absolutePath][ref.line + 1]

OnImportLine(ref) ==
    /\ IsReadable(ref)
    /\ \/ StartsWith(Strip(LineOf(ref)), <<"i", "m", "p", "o", "r", "t", " ">>)
       \/ StartsWith(Strip(LineOf(ref)), <<"f", "r", "o", "m", " ">>)

ParenInWindow(ref) ==
    \E i \in (ref.col + 1)..(ref.col + CallWindow) :
        i <= Len(LineOf(ref)) /\ LineOf(ref)[i] = "("

\* Scenario 1: a declares f, b declares g, c is not scanned, and the one
\* reference to f is in b, in the range of g and of no symbol nested in g, on
\* a readable line that is no import and has "(" within the window
InScenario1 ==
    /\ Len(data) = 2
    /\ Len(RefsOfF) = 1
    /\ data[1].symbols[1].definitions \in {<<>>, <<Def(None, PathA)>>, <<Def(<<"a">>, PathA)>>}
    /\ LET r == RefsOfF[1]
       IN /\ r.absolutePath = PathB
          /\ PosInRange(r.line, r.col, FileB.symbols[1].range)
          /\ ~PosInRange(r.line, r.col, FileB.symbols[2].range)
          /\ IsReadable(r)
          /\ ~OnImportLine(r)
          /\ ParenInWindow(r)

PrunedF == [name |-> <<"f">>, file |-> <<"a">>, defs |-> <<PROJECT_TOKEN \o Slash \o <<"a">>>>]

PrunedG == [name |-> <<"g">>, file |-> <<"b">>, defs |-> <<PROJECT_TOKEN \o Slash \o <<"b">>>>]

\* C5: in scenario 1, wherever in g the reference is, build_dependencies
\* returns exactly the one function edge b:g -> a:f, and integrating it with f
\* and g gives f.calledBy = [id(g)] and g.calls = [id(f)].
C5_Scenario1 ==
    (dpc = "done" /\ InScenario1) =>
        /\ deps_ret.function_edges = <<[src |-> IdBG, dst |-> IdAF]>>
        /\ LET syms == Integrate(<<PrunedF, PrunedG>>, deps_ret.function_edges).symbols
               idF == ComputeSymbolId(PrunedF)
               idG == ComputeSymbolId(PrunedG)
           IN /\ Len(syms) = 2
              /\ syms[1].id = idF /\ syms[1].calledBy = <<idG>>
              /\ syms[2].id = idG /\ syms[2].calls = <<idF>>

\* C6 as stated: no function edge, hence no file edge, is derived from a
\* reference whose source line cannot be read.
C6_UnreadableSkipped ==
    \A k \in 1..Len(func_edge_refs) : IsReadable(RefOfEdge(k))

\* the checks of the scan that do not look at the text of the line: the
\* reference is not on the line where the callee's range starts, its file
\* resolves to an indexed key, a symbol of that file encloses it and is no
\* import alias of the callee, and caller and callee differ
PassesPositionChecks(pos) ==
    LET sym == SymAt(pos)
        ref == RefAt(pos)
        keys == IndexKeys(data)
        ref_file == IF IsStr(ref.relativePath) /\ ref.relativePath # <<>>
                    THEN ref.relativePath ELSE ref.absolutePath
        key == NormalizeRefFile(ref_file, keys)
        syms == BuildSymbolIndex(<<>>, data)[key]
        ci == FindEnclosingSymbol(syms, ref.line, ref.col)
        sp == SymbolSpan(syms[ci])
    IN /\ IsStr(ref_file)
       /\ ~(sym.range.has /\ ref.line = sym.range.sl)
       /\ key # None /\ key # <<>>
       /\ syms # <<>>
       /\ ci # 0
       /\ ~(/\ syms[ci].name = CanonicalizeCallee(sym, data[pos.fi].file).name
            /\ sp.el - sp.sl = 0
            /\ sp.ec - sp.sc < AliasWidth)
       /\ key \o Colon \o syms[ci].name # CalleeId(sym, data[pos.fi].file, keys)

\* C6, amended: a reference whose source line cannot be read is not skipped on
\* that account; it passes the import and the call-context filter and yields
\* its edge exactly when the checks on its position pass, and the scan goes on
\* through every reference.
C6_UnreadableIsPermitted ==
    /\ \A pos \in Scanned :
          ~IsReadable(RefAt(pos)) =>
              (PassesPositionChecks(pos) <=> pos \in Range(func_edge_refs))
    /\ dpc = "done" => cursor = Len(AllRefs(data)) + 1

\* a finished scan with an edge from a reference in a file that is gone, after
\* an unreadable reference that gave none, and with the file edge b -> a
C6_Witness ==
    /\ dpc = "done"
    /\ RefsOfF = <<Ref(<<"b">>, PathGone, 0, 1), Ref(<<"b">>, PathGone, 3, 1)>>
    /\ func_edge_refs # <<>>
    /\ func_edge_refs[1] = [fi |-> 1, si |-> 1, ri |-> 2]
    /\ [src |-> IdBG, dst |-> IdAF] \in Range(deps_ret.function_edges)
    /\ [src |-> <<"b">>, dst |-> <<"a">>] \in Range(deps_ret.file_edges)

\* C7: no function edge is derived from a reference whose line, trimmed,
\* starts with "import " or "from "; a file that holds nothing but
\* `from a import f` is the source of no edge.
C7_NoEdgeFromImportLine ==
    /\ \A k \in 1..Len(func_edge_refs) : ~OnImportLine(RefOfEdge(k))
    /\ \A k \in 1..Len(func_edges) : ~StartsWith(func_edges[k].src, <<"c", ":">>)
    /\ dpc = "done" =>
          \A k \in 1..Len(deps_ret.function_edges) :
              ~StartsWith(deps_ret.function_edges[k].src, <<"c", ":">>)

\* a finished scan of a, b and c that went through the import of f inside g
\* and the import that is all of c, and returned an edge to f
C7_Witness ==
    /\ dpc = "done"
    /\ Len(data) = 3
    /\ RefsOfF = <<Ref(<<"b">>, PathB, 4, 15), Ref(<<"c">>, PathC, 0, 14)>>
    /\ deps_ret.function_edges = <<[src |-> IdBG, dst |-> IdAF]>>

\* ---------------------------------------------------------------------
\* Further properties of topo_order and of the topo command
\* ---------------------------------------------------------------------

\* the rearrangements of a list
Rearrangements(xs) ==
    {[i \in 1..Len(xs) |-> xs[p[i]]] :
        p \in {f \in [1..Len(xs) -> 1..Len(xs)] : \A i, j \in 1..Len(xs) : f[i] = f[j] => i = j}}

\* the input that lists the project ids in ascending order, each with its
\* project callees once, in ascending order
CanonicalInput ==
    LET ids == SortedStrs(ProjectIds)
    IN [i \in 1..Len(ids) |->
           [id |-> ids[i], calls |-> SortedStrs({e[2] : e \in {d \in TopoEdges : d[1] = ids[i]}})]]

\* C11: the result of topo_order depends only on the set of project ids and on
\* the set of (caller, callee) pairs: it is the result on the canonical input
\* of these two sets, and the result on every rearrangement of the symbols
\* list, with the calls lists as they are, reversed or repeated.
C11_OrderInsensitive ==
    tpc = "done" =>
        /\ topo_ret = TopoOrder(symbols, reverse)
        /\ topo_ret = TopoOrder(CanonicalInput, reverse)
        /\ \A p \in Rearrangements(symbols) :
              /\ TopoOrder(p, reverse) = topo_ret
              /\ TopoOrder([i \in 1..Len(p) |-> [p[i] EXCEPT !.calls = Reversed(@)]], reverse) = topo_ret
              /\ TopoOrder([i \in 1..Len(p) |-> [p[i] EXCEPT !.calls = @ \o @]], reverse) = topo_ret

\* a finished run on three project symbols, with a cycle or without, where a
\* callee is listed twice and a calls list is not in ascending order
C11_Witness ==
    /\ tpc = "done"
    /\ Cardinality(ProjectIds) = 3
    /\ \E i \in 1..Len(symbols) : \E c \in Range(symbols[i].calls) : Count(symbols[i].calls, c) > 1
    /\ symbols # CanonicalInput
    /\ TopoEdges # {}

Acyclic == \A a \in ProjectIds : ~OnCycle(a)

\* C12: on an acyclic graph, with reverse = TRUE every caller comes before each
\* project symbol it calls, and with reverse = FALSE every called project
\* symbol comes before its callers.
C12_ReverseIsCallersFirst ==
    (tpc = "done" /\ Acyclic) =>
        \A e \in TopoEdges :
            IF reverse THEN Pos(e[1]) < Pos(e[2]) ELSE Pos(e[2]) < Pos(e[1])

\* the ids of the project symbols of the written list, in its order
WrittenProjectIds ==
    LET ps == SelectSeq(out.symbols, LAMBDA s : ~IsExternal(s.id))
    IN [i \in 1..Len(ps) |-> ps[i].id]

\* C13: the topo command honours its reverse flag: the written project symbols
\* are in the order topo_order(symbols, reverse = the flag), meta.order names
\* that order, and meta.node_count is the length of the written list.
C13_FlagHonoured ==
    mpc = "done" =>
        /\ WrittenProjectIds = TopoOrder(main_symbols, args.reverse)
        /\ out.meta.order = (IF args.reverse THEN "reverse_topological" ELSE "topological")
        /\ out.meta.node_count = Len(out.symbols)

\* ---------------------------------------------------------------------
\* Further properties of integrate
\* ---------------------------------------------------------------------

\* the first definition path of a pruned symbol, None when it has none that
\* is a non-empty string
FirstDefPath(sym) ==
    IF sym.defs # <<>> /\ IsStr(sym.defs[1]) /\ sym.defs[1] # <<>> THEN sym.defs[1] ELSE None

\* the pruned symbols that got an id, and the id build_indices gave each
Identified == {i \in 1..Len(pruned) : <<pruned[i].file, pruned[i].name>> \in DOMAIN by_file_name}

AssignedId(i) == by_file_name[<<pruned[i].file, pruned[i].name>>]

\* C14 as stated: two pruned symbols with the same name and the same first
\* definition path, both having none included, get the same id, whatever
\* their other fields and their position.
C14_IdOfDefPathAndName ==
    ipc \in {"wire", "done"} =>
        \A i, j \in Identified :
            (pruned[i].name = pruned[j].name /\ FirstDefPath(pruned[i]) = FirstDefPath(pruned[j]))
                => AssignedId(i) = AssignedId(j)

\* C14, amended: two pruned symbols with the same name and the same first
\* definition path, a non-empty string, get the same id whatever their other
\* fields and their position; two with the same name and no such path get
\* the same id exactly when they were observed in the same file.
C14_IdOfDefPathOrFile ==
    ipc \in {"wire", "done"} =>
        \A i, j \in Identified :
            pruned[i].name = pruned[j].name =>
                /\ (FirstDefPath(pruned[i]) # None /\ FirstDefPath(pruned[i]) = FirstDefPath(pruned[j]))
                      => AssignedId(i) = AssignedId(j)
                /\ (FirstDefPath(pruned[i]) = None /\ FirstDefPath(pruned[j]) = None)
                      => (AssignedId(i) = AssignedId(j) <=> pruned[i].file = pruned[j].file)

\* a finished run on two f with one definition observed in two files and two g
\* without a definition observed in two files
C14_Witness ==
    /\ ipc = "done"
    /\ pruned = <<SymG, SymGinB, SymF, SymFinB>>
    /\ AssignedId(3) = AssignedId(4)
    /\ AssignedId(1) # AssignedId(2)

\* the edge the wiring loop is at, with both ends resolved to ids
WiringResolved ==
    /\ ipc = "wire"
    /\ ei <= Len(deps)
    /\ IsStr(deps[ei].src)
    /\ IsStr(deps[ei].dst)
    /\ IdFromDepEndpoint(deps[ei].src, by_file_name) # None
    /\ IdFromDepEndpoint(deps[ei].dst, by_file_name) # None

\* C15: an edge from a project symbol to an id that is no project symbol adds
\* the id to the calls of the symbol and changes no calledBy list; an edge
\* from an id that is no project symbol to a project symbol adds the id to the
\* calledBy of the symbol and changes no calls list.
C15_OneSidedEdges ==
    [][(WiringResolved /\ ei' = ei + 1) =>
          LET src_id == IdFromDepEndpoint(deps[ei].src, by_file_name)
              dst_id == IdFromDepEndpoint(deps[ei].dst, by_file_name)
          IN /\ (src_id \in DOMAIN by_id /\ dst_id \notin DOMAIN by_id) =>
                   /\ dst_id \in Range(by_id'[src_id].calls)
                   /\ \A s \in DOMAIN by_id : by_id'[s].calledBy = by_id[s].calledBy
                   /\ \A s \in DOMAIN by_id \ {src_id} : by_id'[s].calls = by_id[s].calls
             /\ (src_id \notin DOMAIN by_id /\ dst_id \in DOMAIN by_id) =>
                   /\ src_id \in Range(by_id'[dst_id].calledBy)
                   /\ \A s \in DOMAIN by_id : by_id'[s].calls = by_id[s].calls
                   /\ \A s \in DOMAIN by_id \ {dst_id} : by_id'[s].calledBy = by_id[s].calledBy]_vars

\* a run that has wired an edge from a project symbol to a library id and an
\* edge from a library id to a project symbol
C15_Witness ==
    /\ ipc = "wire"
    /\ ei = 3
    /\ \E s \in DOMAIN by_id : \E c \in Range(by_id[s].calls) :
          c \notin DOMAIN by_id /\ c \in DOMAIN externals
    /\ \E s \in DOMAIN by_id : \E c \in Range(by_id[s].calledBy) :
          c \notin DOMAIN by_id /\ c \in DOMAIN externals

\* C16: in the output of integrate the symbols are strictly ascending by id
\* and every calls and every calledBy list is strictly ascending, also when
\* two input symbols get the same id and when an edge is listed several times.
StrictlyAscending(l) == \A i \in 1..(Len(l) - 1) : StrLt(l[i], l[i + 1])

C16_SortedNoDuplicates ==
    ipc = "done" =>
        /\ StrictlyAscending([i \in 1..Len(result.symbols) |-> result.symbols[i].id])
        /\ \A i \in 1..Len(result.symbols) :
              /\ StrictlyAscending(result.symbols[i].calls)
              /\ StrictlyAscending(result.symbols[i].calledBy)

\* a finished run on two symbols with the same id and an edge listed twice,
\* which left a calls list of one entry
C16_Witness ==
    /\ ipc = "done"
    /\ pruned = <<SymF, SymFinB>>
    /\ Len(deps) = 2
    /\ deps[1] = deps[2]
    /\ Len(result.symbols) = 1
    /\ Len(result.symbols[1].calls) = 1

\* ---------------------------------------------------------------------
\* Further properties of build_dependencies
\* ---------------------------------------------------------------------

\* the symbol whose reference gave the k-th raw function edge
CalleeOfEdge(k) == SymAt(func_edge_refs[k])

\* C17: all function edges for occurrences of a callee with the same name and
\* the same first recorded definition have the same dst, whatever file each
\* occurrence was observed in.
C17_OneDefiningLocation ==
    \A k1, k2 \in 1..Len(func_edges) :
        (/\ CalleeOfEdge(k1).name = CalleeOfEdge(k2).name
         /\ CalleeOfEdge(k1).definitions # <<>>
         /\ CalleeOfEdge(k2).definitions # <<>>
         /\ CalleeOfEdge(k1).definitions[1] = CalleeOfEdge(k2).definitions[1])
            => func_edges[k1].dst = func_edges[k2].dst

\* a finished scan that gave an edge for f as declared in a and an edge for f
\* as imported into c, both recording the definition in a
C17_Witness ==
    /\ dpc = "done"
    /\ Len(data) = 3
    /\ data[1].symbols[1].definitions = data[3].symbols[1].definitions
    /\ \E k1, k2 \in 1..Len(func_edges) :
          func_edge_refs[k1].fi = 1 /\ func_edge_refs[k2].fi = 3

\* ---------------------------------------------------------------------
\* Properties of prune_hover
\* ---------------------------------------------------------------------

\* C18: every stage is pure with respect to its input; for prune_hover: the
\* hover payload it was given is, after the call, what it was before the call.
C18_InputUnchanged ==
    ppc = "done" => hv_list = hv_orig

\* ---------------------------------------------------------------------
\* Properties of the resolution of edge endpoints by integrate
\* ---------------------------------------------------------------------

\* the edges of the input that have two well-formed ends
WellFormedEdges == {k \in 1..Len(deps) : WellFormed(deps[k].src) /\ WellFormed(deps[k].dst)}

ResolvedId(ep) == IdFromDepEndpoint(ep, by_file_name)

\* C19: an endpoint whose file part is absolute resolves to '<filePart>:<name>'
\* with the file part as written, the endpoint itself: after the run it is in
\* the calls of the project symbol at the other end of its edge, or in its
\* calledBy.
C19_AbsoluteAsWritten ==
    ipc = "done" =>
        \A k \in WellFormedEdges :
            LET s == deps[k].src
                d == deps[k].dst
            IN /\ (StartsWith(d, Slash) /\ ResolvedId(s) \in DOMAIN by_id)
                      => d \in Range(by_id[ResolvedId(s)].calls)
               /\ (StartsWith(s, Slash) /\ ResolvedId(d) \in DOMAIN by_id)
                      => s \in Range(by_id[ResolvedId(d)].calledBy)

\* the file part of a project endpoint relative to the project root
RelativeFile(ep) ==
    IF StartsWith(ep, PROJECT_TOKEN \o Slash)
    THEN SubSeq(WrittenFile(ep), Len(PROJECT_TOKEN) + 2, Len(WrittenFile(ep)))
    ELSE WrittenFile(ep)

\* the endpoints with a name whose file part is PROJECT-prefixed or a bare
\* relative path (one that does not climb out of the project with "..")
ProjectEndpoints ==
    {ep \in UNION {{deps[k].src, deps[k].dst} : k \in 1..Len(deps)} :
        /\ WellFormed(ep)
        /\ ~StartsWith(ep, Slash)
        /\ ~StartsWith(ep, <<".">>)}

\* C20: an endpoint with a name whose file part is PROJECT-prefixed or a bare
\* relative path resolves to the id of the symbol indexed under (relativeFile,
\* name), to 'PROJECT/<relativeFile>:<name>' without one, and never to nothing.
C20_ProjectEndpointResolves ==
    ipc \in {"wire", "done"} =>
        \A ep \in ProjectEndpoints :
            /\ ResolvedId(ep) # None
            /\ ResolvedId(ep) =
                  IF <<RelativeFile(ep), WrittenName(ep)>> \in DOMAIN by_file_name
                  THEN by_file_name[<<RelativeFile(ep), WrittenName(ep)>>]
                  ELSE PROJECT_TOKEN \o Slash \o RelativeFile(ep) \o Colon \o WrittenName(ep)

\* an edge with an end that is no string, has no ':' or has an empty name
Malformed(e) == ~WellFormed(e.src) \/ ~WellFormed(e.dst)

\* C21: an edge whose src or dst is not a string, contains no ':' or has an
\* empty name is dropped: the step that processes it changes no calls list,
\* no calledBy list and no externals entry, and the run returns what it
\* returns on the edge list without such edges.
C21_MalformedDropped ==
    [][/\ (ipc = "wire" /\ ei' = ei + 1 /\ Malformed(deps[ei])) =>
             (by_id' = by_id /\ externals' = externals)
       /\ (ipc' = "done") =>
             result' = Integrate(pruned, SelectSeq(deps, LAMBDA e : ~Malformed(e)))]_vars

\* a finished run whose first edge was malformed and whose second edge was
\* attached to a project symbol
C21_Witness ==
    /\ ipc = "done"
    /\ Len(deps) = 2
    /\ Malformed(deps[1])
    /\ ~Malformed(deps[2])
    /\ \E i \in 1..Len(result.symbols) :
          result.symbols[i].calls # <<>> \/ result.symbols[i].calledBy # <<>>

(***************************************************************************)
(* lsp_build_deps.py: pos_in_range, called on its own                      *)
(***************************************************************************)
\* lines and characters run over 0..MaxPos
MaxPos == 2

Positions == 0..MaxPos

\* ranges with integer ends (empty and inverted ones included) and ranges
\* that lack their start, their end or both
Ranges ==
    {Rng(sl, sc, el, ec) : sl \in Positions, sc \in Positions, el \in Positions, ec \in Positions}
    \cup {NoStart(el, ec) : el \in Positions, ec \in Positions}
    \cup {NoEnd(sl, sc) : sl \in Positions, sc \in Positions}
    \cup {NoStartNoEnd}

InitRange ==
    /\ pir_line \in Positions
    /\ pir_ch \in Positions
    /\ pir_rng \in Ranges
    /\ pir_ret = FALSE
    /\ rpc = "start"
    /\ IdleTopo
    /\ IdleIntegrate
    /\ IdleDeps
    /\ IdleMain
    /\ IdleHover
    /\ IdleEnclosing
    /\ IdleRefs
    /\ IdleRoot
    /\ IdlePipe
    /\ IdleNorm

\* the call pos_in_range(line, ch, rng)
PosInRangeCall ==
    /\ rpc = "start"
    /\ pir_ret' = PosInRange(pir_line, pir_ch, pir_rng)
    /\ rpc' = "done"
    /\ UNCHANGED <<pir_line, pir_ch, pir_rng, topoVars, intVars, depsVars, mainVars, hoverVars, enclosingVars, refsVars, rootVars, pipeVars, normVars>>

NextRange == PosInRangeCall

SpecRange == InitRange /\ [][NextRange]_vars /\ WF_vars(NextRange)

(***************************************************************************)
(* Properties of pos_in_range                                              *)
(***************************************************************************)
\* (l1, c1) <= (l2, c2) and (l1, c1) < (l2, c2) in (line, character) order
LexLe(l1, c1, l2, c2) == l1 < l2 \/ (l1 = l2 /\ c1 <= c2)

LexLt(l1, c1, l2, c2) == l1 < l2 \/ (l1 = l2 /\ c1 < c2)

\* C22: pos_in_range(line, ch, range) is true exactly when
\* start <= (line, ch) < end in lexicographic (line, character) order, for
\* every position and every range with integer ends, empty and inverted
\* ranges included; a missing start or end makes it false.
C22_HalfOpenLexicographic ==
    rpc = "done" =>
        pir_ret = (/\ pir_rng.hs
                   /\ pir_rng.he
                   /\ LexLe(pir_rng.sl, pir_rng.sc, pir_line, pir_ch)
                   /\ LexLt(pir_line, pir_ch, pir_rng.el, pir_rng.ec))

\* a position inside a range of several lines, left of the range's start
\* column and right of its end column
C22_Witness ==
    /\ rpc = "done"
    /\ pir_ret
    /\ pir_rng.hs /\ pir_rng.he
    /\ pir_ch < pir_rng.sc
    /\ pir_ch >= pir_rng.ec

(***************************************************************************)
(* lsp_build_deps.py: find_enclosing_symbol, called on its own             *)
(***************************************************************************)
\* the file's symbol list has up to MaxEnclosing symbols
MaxEnclosing == 2

\* columns: the first two of a line, and one of a line longer than the
\* weight a line has in span_score
LongColumn == SpanLineWeight + 1

Columns == {0, 1, LongColumn}

Lines == {0, 1}

\* symbols of kind function and variable whose ranges start on line 0
EnclosingPool ==
    {Sym(<<"s">>, kind, Rng(0, sc, el, ec), <<>>, <<>>) :
        kind \in {KindFunction, KindVariable}, sc \in {0, 1}, el \in Lines, ec \in Columns}

InitEnclosing ==
    /\ \E n \in 0..MaxEnclosing : fes_symbols \in [1..n -> EnclosingPool]
    /\ fes_line \in Lines
    /\ fes_ch \in {0, 1}
    /\ fes_ret = 0
    /\ fpc = "start"
    /\ IdleTopo
    /\ IdleIntegrate
    /\ IdleDeps
    /\ IdleMain
    /\ IdleHover
    /\ IdleRange
    /\ IdleRefs
    /\ IdleRoot
    /\ IdlePipe
    /\ IdleNorm

\* the call find_enclosing_symbol(symbols, line, ch); fes_ret is the index of
\* the returned symbol in `symbols`, 0 for None
FindEnclosingSymbolCall ==
    /\ fpc = "start"
    /\ fes_ret' = FindEnclosingSymbol(fes_symbols, fes_line, fes_ch)
    /\ fpc' = "done"
    /\ UNCHANGED <<fes_symbols, fes_line, fes_ch, topoVars, intVars, depsVars, mainVars, hoverVars, rangeVars, refsVars, rootVars, pipeVars, normVars>>

NextEnclosing == FindEnclosingSymbolCall

SpecEnclosing == InitEnclosing /\ [][NextEnclosing]_vars /\ WF_vars(NextEnclosing)

(***************************************************************************)
(* Properties of find_enclosing_symbol                                     *)
(***************************************************************************)
\* the symbol contains the position under half-open semantics
Contains23(sym) ==
    /\ LexLe(sym.range.sl, sym.range.sc, fes_line, fes_ch)
    /\ LexLt(fes_line, fes_ch, sym.range.el, sym.range.ec)

\* a comes before b, or ties with it, in the order: function and method
\* kinds first, then smaller line width, then smaller character width
PreferredLe(a, b) ==
    LET pa == IF a.kind \in {6, 12} THEN 0 ELSE 1
        pb == IF b.kind \in {6, 12} THEN 0 ELSE 1
        la == a.range.el - a.range.sl
        lb == b.range.el - b.range.sl
        ca == a.range.ec - a.range.sc
        cb == b.range.ec - b.range.sc
    IN \/ pa < pb
       \/ pa = pb /\ la < lb
       \/ pa = pb /\ la = lb /\ ca <= cb

\* C23: find_enclosing_symbol returns nothing exactly when no symbol of the
\* file contains the position; otherwise it returns a containing symbol that
\* is minimal for the order (function or method kind, then line width, then
\* character width), the first declared among equal candidates.
C23_InnermostPreferred ==
    fpc = "done" =>
        LET cand == {i \in 1..Len(fes_symbols) : Contains23(fes_symbols[i])}
        IN /\ (fes_ret = 0) = (cand = {})
           /\ fes_ret # 0 =>
                /\ fes_ret \in cand
                /\ \A j \in cand :
                      /\ PreferredLe(fes_symbols[fes_ret], fes_symbols[j])
                      /\ (j < fes_ret => ~PreferredLe(fes_symbols[j], fes_symbols[fes_ret]))

\* the same, for files none of whose lines is longer than the weight of a line
C23_ShortLines ==
    (\A i \in 1..Len(fes_symbols) : fes_symbols[i].range.ec < SpanLineWeight) =>
        C23_InnermostPreferred

(***************************************************************************)
(* Properties of build_dependencies: file edges                            *)
(***************************************************************************)
\* the file of an endpoint id "file:name"
FileOfId(id) == SubSeq(id, 1, LastColon(id) - 1)

\* the (callerFile, calleeFile) pairs of the returned function edges that
\* cross files
CrossFilePairs ==
    {[src |-> FileOfId(e.src), dst |-> FileOfId(e.dst)] :
        e \in {x \in Range(deps_ret.function_edges) : FileOfId(x.src) # FileOfId(x.dst)}}

\* C24: the returned file_edges are exactly the distinct
\* (callerFile, calleeFile) pairs of the returned function edges with
\* callerFile # calleeFile: none is missing, none is unfounded, none has
\* src = dst and none is listed twice.
C24_FileEdgesOfFunctionEdges ==
    dpc = "done" =>
        LET fe == deps_ret.file_edges
        IN /\ Range(fe) = CrossFilePairs
           /\ \A i \in 1..Len(fe) : fe[i].src # fe[i].dst
           /\ \A i \in 1..Len(fe), j \in 1..Len(fe) : fe[i] = fe[j] => i = j

\* a run that returns an edge inside one file and an edge across files
C24_Witness ==
    /\ dpc = "done"
    /\ \E e \in Range(deps_ret.function_edges) : FileOfId(e.src) = FileOfId(e.dst)
    /\ \E e \in Range(deps_ret.function_edges) : FileOfId(e.src) # FileOfId(e.dst)
    /\ deps_ret.file_edges # <<>>

(***************************************************************************)
(* Properties of topo_order: the order among the admissible ones           *)
(***************************************************************************)
\* the ids at the indices before i
PlacedBefore(i) == {topo_ret[k] : k \in 1..(i - 1)}

\* the nodes not placed before index i all of whose callers are
Ready(i) ==
    {v \in ProjectIds \ PlacedBefore(i) :
        \A e \in TopoEdges : e[2] = v => e[1] \in PlacedBefore(i)}

\* C25: on an acyclic ordering graph the non-reversed result is the
\* lexicographically smallest topological order: each index holds the
\* smallest id among the nodes whose callers all appear at earlier indices.
C25_SmallestTopologicalOrder ==
    (tpc = "done" /\ ~reverse /\ Acyclic) =>
        /\ Len(topo_ret) = Cardinality(ProjectIds)
        /\ \A i \in 1..Len(topo_ret) :
              /\ topo_ret[i] \in Ready(i)
              /\ \A v \in Ready(i) : StrLe(topo_ret[i], v)

\* an acyclic run in which a node released by the loop goes before a node
\* that was in the initial queue
C25_Witness ==
    /\ tpc = "done"
    /\ ~reverse
    /\ Acyclic
    /\ Len(topo_ret) = 3
    /\ <<topo_ret[1], topo_ret[2]>> \in TopoEdges
    /\ \A e \in TopoEdges : e[2] # topo_ret[3]

(***************************************************************************)
(* lsp_prune.py: paths, normalize_path, prune_references                   *)
(***************************************************************************)
\* A pathlib.Path is the sequence of its components below the root "/".
\* Parts(s): the components of the string s, empty ones ("//") left out
RECURSIVE Parts(_)
Parts(s) ==
    IF s = <<>> THEN <<>>
    ELSE IF Head(s) = "/" THEN Parts(Tail(s))
    ELSE LET n == IF Contains(s, Slash) THEN IndexOf(s, Slash) - 1 ELSE Len(s)
         IN <<SubSeq(s, 1, n)>> \o Parts(SubSeq(s, n + 1, Len(s)))

Dot == <<".">>

DotDot == <<".", ".">>

\* "." dropped and ".." applied, left to right (no symbolic links)
RECURSIVE Collapse(_, _)
Collapse(done, parts) ==
    IF parts = <<>> THEN done
    ELSE IF Head(parts) = Dot THEN Collapse(done, Tail(parts))
    ELSE IF Head(parts) = DotDot
         THEN Collapse(IF done = <<>> THEN <<>> ELSE SubSeq(done, 1, Len(done) - 1), Tail(parts))
    ELSE Collapse(Append(done, Head(parts)), Tail(parts))

\* Path(s).resolve(): absolute, against the working directory when s is relative
Resolve(s) ==
    IF StartsWith(s, Slash) THEN Collapse(<<>>, Parts(s))
    ELSE Collapse(<<>>, Parts(Cwd) \o Parts(s))

\* p == q or p in q.parents
IsAncestorOrSelf(anc, path) == Len(anc) <= Len(path) /\ SubSeq(path, 1, Len(anc)) = anc

\* Path.as_posix() of a relative path
RECURSIVE AsPosix(_)
AsPosix(parts) ==
    IF parts = <<>> THEN Dot
    ELSE IF Len(parts) = 1 THEN parts[1]
    ELSE parts[1] \o Slash \o AsPosix(Tail(parts))

\* normalize_path(abs_path, repo_root)
NormalizePath(abs_path, repo_root) ==
    LET abs_p == Resolve(abs_path)
    IN IF IsAncestorOrSelf(repo_root, abs_p)
       THEN PROJECT_TOKEN \o Slash \o AsPosix(SubSeq(abs_p, Len(repo_root) + 1, Len(abs_p)))
       ELSE abs_path

\* Mutant: a path seen again is counted once
CountOnce(cnt, norm) == [p \in DOMAIN cnt \cup {norm} |-> IF p = norm THEN 1 ELSE cnt[p]]

\* line 37: counter[norm] += 1 on a defaultdict(int)
CountUp(cnt, norm) ==
    [p \in DOMAIN cnt \cup {norm} |->
        IF p = norm THEN (IF norm \in DOMAIN cnt THEN cnt[norm] + 1 ELSE 1) ELSE cnt[p]]

\* lines 39-40: the entries, sorted by absolutePath
SortedCounts(cnt) ==
    LET paths == SortedStrs(DOMAIN cnt)
    IN [i \in 1..Len(paths) |-> [absolutePath |-> paths[i], count |-> cnt[paths[i]]]]

\* the reference list has up to MaxPruneRefs entries
MaxPruneRefs == 3

\* the repository root /r
RepoRoot == << <<"r">> >>

\* absolutePath values: two spellings of /r/a, another file of the
\* repository, the root itself, a file outside, a path that has the root as
\* a string prefix only, and a value that is no string
PathPool ==
    {<<"/", "r", "/", "a">>, <<"/", "r", "/", ".", "/", "a">>, <<"/", "r", "/", "b">>,
     <<"/", "r">>, <<"/", "x", "/", "a">>, <<"/", "r", "a">>, None}

InitRefs ==
    /\ pr_refs \in SeqsUpTo({[absolutePath |-> p] : p \in PathPool}, MaxPruneRefs)
    /\ pr_root = RepoRoot
    /\ counter = <<>>
    /\ pr_i = 1
    /\ pr_ret = <<>>
    /\ cpc = "loop"
    /\ IdleTopo
    /\ IdleIntegrate
    /\ IdleDeps
    /\ IdleMain
    /\ IdleHover
    /\ IdleRange
    /\ IdleEnclosing
    /\ IdleRoot
    /\ IdlePipe
    /\ IdleNorm

\* lines 33-37: one iteration of `for r in refs`
CountRef ==
    /\ cpc = "loop"
    /\ pr_i <= Len(pr_refs)
    /\ LET abs_path == pr_refs[pr_i].absolutePath
       IN counter' = IF IsStr(abs_path)
                     THEN CountUp(counter, NormalizePath(abs_path, pr_root))
                     ELSE counter
    /\ pr_i' = pr_i + 1
    /\ UNCHANGED <<pr_refs, pr_root, pr_ret, cpc, topoVars, intVars, depsVars, mainVars, hoverVars, rangeVars, enclosingVars, rootVars, pipeVars, normVars>>

\* lines 39-40
PruneReferencesReturn ==
    /\ cpc = "loop"
    /\ pr_i > Len(pr_refs)
    /\ pr_ret' = SortedCounts(counter)
    /\ cpc' = "done"
    /\ UNCHANGED <<pr_refs, pr_root, counter, pr_i, topoVars, intVars, depsVars, mainVars, hoverVars, rangeVars, enclosingVars, rootVars, pipeVars, normVars>>

NextRefs == CountRef \/ PruneReferencesReturn

SpecRefs == InitRefs /\ [][NextRefs]_vars /\ WF_vars(NextRefs)

(***************************************************************************)
(* Properties of prune_references                                          *)
(***************************************************************************)
\* the indices of the input references whose absolutePath is a string
StringRefs == {k \in 1..Len(pr_refs) : IsStr(pr_refs[k].absolutePath)}

NormOf(k) == NormalizePath(pr_refs[k].absolutePath, pr_root)

RECURSIVE SumCounts(_)
SumCounts(l) == IF l = <<>> THEN 0 ELSE Head(l).count + SumCounts(Tail(l))

\* C26: prune_references returns exactly one entry per distinct normalized
\* path, in strictly ascending path order, each with the number of input
\* references that normalize to its path; the counts sum to the number of
\* input references that have a string absolutePath.
C26_OneEntryPerPathWithCount ==
    cpc = "done" =>
        /\ {pr_ret[i].absolutePath : i \in 1..Len(pr_ret)} = {NormOf(k) : k \in StringRefs}
        /\ \A i \in 1..Len(pr_ret), j \in 1..Len(pr_ret) :
              i < j => StrLt(pr_ret[i].absolutePath, pr_ret[j].absolutePath)
        /\ \A i \in 1..Len(pr_ret) :
              pr_ret[i].count = Cardinality({k \in StringRefs : NormOf(k) = pr_ret[i].absolutePath})
        /\ SumCounts(pr_ret) = Cardinality(StringRefs)

\* two spellings of one file counted together, next to a reference without
\* a string path
C26_Witness ==
    /\ cpc = "done"
    /\ \E i \in 1..Len(pr_ret) : pr_ret[i].count = 2
    /\ \E k \in StringRefs, m \in StringRefs :
          pr_refs[k].absolutePath # pr_refs[m].absolutePath /\ NormOf(k) = NormOf(m)
    /\ \E k \in 1..Len(pr_refs) : ~IsStr(pr_refs[k].absolutePath)

(***************************************************************************)
(* lsp_prune.py: detect_repo_root                                          *)
(***************************************************************************)
\* data["symbols"] has up to MaxRootSyms symbols
MaxRootSyms == 2

\* absolutePath values: two files of one directory, a file of the same name
\* in a sibling directory, and a file elsewhere
RootPathPool == {<<"/", "r", "/", "a", "/", "x">>, <<"/", "r", "/", "a", "/", "y">>, <<"/", "r", "/", "b", "/", "x">>, <<"/", "q", "/", "z">>}

\* a reference or definition entry; None stands for an entry without the
\* key "absolutePath"
RootEntries == {[absolutePath |-> p] : p \in RootPathPool \cup {None}}

\* symbols with at most one reference and at most one definition
RootSymbols ==
    {[references |-> r, definitions |-> d] :
        r \in SeqsUpTo(RootEntries, 1), d \in SeqsUpTo(RootEntries, 1)}

\* the directories on disk: none of interest, or /r with data and src in it
BareDisk == {}

MarkedDisk == {<< <<"r">>, <<"d", "a", "t", "a">> >>, << <<"r">>, <<"s", "r", "c">> >>}

\* lines 82-87: the resolved paths of a symbol's references, then of its
\* definitions, for the entries that have the key
PathsOfEntries(entries) ==
    LET with == SelectSeq(entries, LAMBDA e : e.absolutePath # None)
    IN [i \in 1..Len(with) |-> Resolve(with[i].absolutePath)]

RECURSIVE CollectPaths(_)
CollectPaths(syms) ==
    IF syms = <<>> THEN <<>>
    ELSE PathsOfEntries(Head(syms).references) \o PathsOfEntries(Head(syms).definitions)
            \o CollectPaths(Tail(syms))

\* the common prefix of two paths, component by component
RECURSIVE CommonPrefix(_, _)
CommonPrefix(a, b) ==
    IF a = <<>> \/ b = <<>> \/ Head(a) # Head(b) THEN <<>>
    ELSE <<Head(a)>> \o CommonPrefix(Tail(a), Tail(b))

\* line 98: [a for a, b in zip(common_path.parts, p.parts) if a == b], below
\* the root "/" that all absolute paths share
RECURSIVE ZipEqual(_, _)
ZipEqual(a, b) ==
    IF a = <<>> \/ b = <<>> THEN <<>>
    ELSE (IF Head(a) = Head(b) THEN <<Head(a)>> ELSE <<>>) \o ZipEqual(Tail(a), Tail(b))

\* lines 107-109: the deepest ancestor-or-self of p that holds data and src,
\* as the number of its components; -1 when there is none
MarkedDepth(p, dirs) ==
    LET hits == {i \in 0..Len(p) :
                    /\ Append(SubSeq(p, 1, i), <<"d", "a", "t", "a">>) \in dirs
                    /\ Append(SubSeq(p, 1, i), <<"s", "r", "c">>) \in dirs}
    IN IF hits = {} THEN -1 ELSE CHOOSE i \in hits : \A j \in hits : j <= i

\* lines 105-113: possible_root, None when no path has such an ancestor
PossibleRoot(paths, dirs) ==
    LET found == {k \in 1..Len(paths) : MarkedDepth(paths[k], dirs) >= 0}
    IN IF found = {} THEN None
       ELSE LET k == CHOOSE x \in found : \A y \in found : x <= y
            IN SubSeq(paths[k], 1, MarkedDepth(paths[k], dirs))

InitRoot ==
    /\ dr_data \in SeqsUpTo(RootSymbols, MaxRootSyms)
    /\ disk \in {BareDisk, MarkedDisk}
    /\ abs_paths = <<>>
    /\ common_path = <<>>
    /\ dr_i = 0
    /\ dr_ret = <<>>
    /\ rtpc = "start"
    /\ IdleTopo
    /\ IdleIntegrate
    /\ IdleDeps
    /\ IdleMain
    /\ IdleHover
    /\ IdleRange
    /\ IdleEnclosing
    /\ IdleRefs
    /\ IdlePipe
    /\ IdleNorm

\* lines 78-87 and 95: the paths are collected; the fold starts from the first
CollectAbsPaths ==
    /\ rtpc = "start"
    /\ CollectPaths(dr_data) # <<>>
    /\ abs_paths' = CollectPaths(dr_data)
    /\ common_path' = abs_paths'[1]
    /\ dr_i' = 2
    /\ rtpc' = "fold"
    /\ UNCHANGED <<dr_data, disk, dr_ret, topoVars, intVars, depsVars, mainVars, hoverVars, rangeVars, enclosingVars, refsVars, pipeVars, normVars>>

\* lines 90-92: no path at all, the working directory is returned
NoPathsReturn ==
    /\ rtpc = "start"
    /\ CollectPaths(dr_data) = <<>>
    /\ dr_ret' = Resolve(Cwd)
    /\ rtpc' = "done"
    /\ UNCHANGED <<dr_data, disk, abs_paths, common_path, dr_i, topoVars, intVars, depsVars, mainVars, hoverVars, rangeVars, enclosingVars, refsVars, pipeVars, normVars>>

\* lines 96-101: one iteration of `for p in abs_paths[1:]`; reaching "/"
\* leaves the loop
FoldPath ==
    /\ rtpc = "fold"
    /\ dr_i <= Len(abs_paths)
    /\ common_path' = ZipEqual(common_path, abs_paths[dr_i])
    /\ dr_i' = IF common_path' = <<>> THEN Len(abs_paths) + 1 ELSE dr_i + 1
    /\ UNCHANGED <<dr_data, disk, abs_paths, dr_ret, rtpc, topoVars, intVars, depsVars, mainVars, hoverVars, rangeVars, enclosingVars, refsVars, pipeVars, normVars>>

\* lines 103-116
DetectReturn ==
    /\ rtpc = "fold"
    /\ dr_i > Len(abs_paths)
    /\ dr_ret' = IF PossibleRoot(abs_paths, disk) # None
                 THEN PossibleRoot(abs_paths, disk) ELSE common_path
    /\ rtpc' = "done"
    /\ UNCHANGED <<dr_data, disk, abs_paths, common_path, dr_i, topoVars, intVars, depsVars, mainVars, hoverVars, rangeVars, enclosingVars, refsVars, pipeVars, normVars>>

NextRoot == CollectAbsPaths \/ NoPathsReturn \/ FoldPath \/ DetectReturn

SpecRoot == InitRoot /\ [][NextRoot]_vars /\ WF_vars(NextRoot)

(***************************************************************************)
(* Properties of detect_repo_root                                          *)
(***************************************************************************)
\* path c is a prefix, component by component, of every collected path
PrefixOfAll(c) == \A k \in 1..Len(abs_paths) : IsAncestorOrSelf(c, abs_paths[k])

\* the run collected paths and the ancestor-directory heuristic found nothing
HeuristicFoundNothing ==
    rtpc = "done" /\ abs_paths # <<>> /\ PossibleRoot(abs_paths, disk) = None

\* C27: when the ancestor-directory heuristic finds nothing, detect_repo_root
\* returns the deepest common component-wise prefix of all collected paths:
\* every collected path has the result as a prefix and no longer path has
\* that property, also when two paths share a component at the same depth
\* below a component where they differ.
C27_DeepestCommonPrefix ==
    HeuristicFoundNothing =>
        /\ PrefixOfAll(dr_ret)
        /\ \A n \in 0..Len(abs_paths[1]) :
              PrefixOfAll(SubSeq(abs_paths[1], 1, n)) => n <= Len(dr_ret)

\* the same, for inputs in which no two paths agree on a component below one
\* on which they differ
C27_WhenFoldIsPrefix ==
    (\A k \in 1..Len(abs_paths), m \in 1..Len(abs_paths) :
        ZipEqual(abs_paths[k], abs_paths[m]) = CommonPrefix(abs_paths[k], abs_paths[m])) =>
        C27_DeepestCommonPrefix

(***************************************************************************)
(* pipeline.py: run and main                                               *)
(***************************************************************************)
\* lines 58-62: the documents of the output directory
per_file_json == "00_per_file.json"

per_func_json == "01_per_func.json"

deps_json == "02_deps.json"

pruned_json == "03_pruned.json"

final_json == "04_final_integrated.json"

\* lines 64-104: the commands of main, in program order: the script, the
\* documents passed as --input-file / --deps-file, and --output-name
Stages ==
    << [script |-> "lsp_per_file.py", reads |-> {}, writes |-> per_file_json],
       [script |-> "per_file2per_func.py", reads |-> {per_file_json}, writes |-> per_func_json],
       [script |-> "lsp_build_deps.py", reads |-> {per_file_json}, writes |-> deps_json],
       [script |-> "lsp_prune.py", reads |-> {per_func_json}, writes |-> pruned_json],
       [script |-> "integrate.py", reads |-> {pruned_json, deps_json}, writes |-> final_json] >>

\* exit statuses of a child process
ExitCodes == {0, 1, 2}

\* Mutant: subprocess.run without check=True
RaisesNever(code) == FALSE

\* line 36: subprocess.run(cmd, check=True) raises CalledProcessError on a
\* non-zero exit status
Raises(code) == code # 0

\* lines 48-54: --output given, or the default root and the input's name
OutputDirs == {"out", "data/lsp_json_outputs/proj"}

\* The output directory may hold documents of earlier runs (mkdir with
\* exist_ok, line 56).
InitPipe ==
    /\ output_dir \in OutputDirs
    /\ pl_files \in SUBSET {per_file_json, per_func_json, deps_json, pruned_json, final_json}
    /\ pl_stage = 1
    /\ pl_log = <<>>
    /\ pl_printed = FALSE
    /\ plpc = "main"
    /\ IdleTopo
    /\ IdleIntegrate
    /\ IdleDeps
    /\ IdleMain
    /\ IdleHover
    /\ IdleRange
    /\ IdleEnclosing
    /\ IdleRefs
    /\ IdleRoot
    /\ IdleNorm

\* run(cmd) up to the start of the child: main is at its next run() call
StartStage ==
    /\ plpc = "main"
    /\ pl_stage <= Len(Stages)
    /\ pl_log' = Append(pl_log, [script |-> Stages[pl_stage].script,
                                 reads |-> Stages[pl_stage].reads,
                                 writes |-> Stages[pl_stage].writes,
                                 exit |-> -1])
    /\ plpc' = "child"
    /\ UNCHANGED <<output_dir, pl_files, pl_stage, pl_printed, topoVars, intVars, depsVars, mainVars, hoverVars, rangeVars, enclosingVars, refsVars, rootVars, normVars>>

\* the child exits; a stage succeeds only with its input documents present
\* and then has written its output; a non-zero status ends main through the
\* exception of line 36
ExitStage ==
    /\ plpc = "child"
    /\ \E code \in ExitCodes :
          /\ code = 0 => Stages[pl_stage].reads \subseteq pl_files
          /\ pl_log' = [pl_log EXCEPT ![Len(pl_log)].exit = code]
          /\ pl_files' = IF code = 0 THEN pl_files \cup {Stages[pl_stage].writes} ELSE pl_files
          /\ plpc' = IF Raises(code) THEN "raised" ELSE "main"
          /\ pl_stage' = IF Raises(code) THEN pl_stage ELSE pl_stage + 1
    /\ UNCHANGED <<output_dir, pl_printed, topoVars, intVars, depsVars, mainVars, hoverVars, rangeVars, enclosingVars, refsVars, rootVars, normVars>>

\* line 106
PrintFinished ==
    /\ plpc = "main"
    /\ pl_stage > Len(Stages)
    /\ pl_printed' = TRUE
    /\ plpc' = "done"
    /\ UNCHANGED <<output_dir, pl_files, pl_stage, pl_log, topoVars, intVars, depsVars, mainVars, hoverVars, rangeVars, enclosingVars, refsVars, rootVars, normVars>>

NextPipe == StartStage \/ ExitStage \/ PrintFinished

SpecPipe == InitPipe /\ [][NextPipe]_vars /\ WF_vars(NextPipe)

(***************************************************************************)
(* Properties of the pipeline runner                                       *)
(***************************************************************************)
\* the stages by what they do
ScanStage == "lsp_per_file.py"

MergeStage == "per_file2per_func.py"

EdgeStage == "lsp_build_deps.py"

PruneStage == "lsp_prune.py"

IntegrateStage == "integrate.py"

FixedOrder == <<ScanStage, MergeStage, EdgeStage, PruneStage, IntegrateStage>>

\* C28: the stages are started in the order scan, per-function merge, edge
\* building, pruning, integration, each only after the previous one exited
\* with success; edge building reads the raw per-file document, pruning the
\* merged one, integration the outputs of both; after a failed stage no
\* later stage is started and the final message is not printed.
C28_StagesInOrder ==
    /\ Len(pl_log) <= Len(FixedOrder)
    /\ \A i \in 1..Len(pl_log) :
          /\ pl_log[i].script = FixedOrder[i]
          /\ i < Len(pl_log) => pl_log[i].exit = 0
          /\ pl_log[i].script = EdgeStage => pl_log[i].reads = {"00_per_file.json"}
          /\ pl_log[i].script = PruneStage => pl_log[i].reads = {"01_per_func.json"}
          /\ pl_log[i].script = IntegrateStage =>
                pl_log[i].reads = {pl_log[3].writes, pl_log[4].writes}
    /\ Len(pl_log) >= 2 => pl_log[2].reads = {pl_log[1].writes}
    /\ Len(pl_log) >= 3 => pl_log[3].reads = {pl_log[1].writes}
    /\ Len(pl_log) >= 4 => pl_log[4].reads = {pl_log[2].writes}
    /\ pl_printed =>
          /\ Len(pl_log) = Len(FixedOrder)
          /\ \A i \in 1..Len(pl_log) : pl_log[i].exit = 0

\* the runner stopped at the failed edge-building stage
C28_Witness ==
    /\ plpc = "raised"
    /\ Len(pl_log) = 3
    /\ pl_log[3].exit # 0
    /\ ~pl_printed

(***************************************************************************)
(* Properties of integrate: symmetry of the adjacency                      *)
(***************************************************************************)
\* C29: after integrate, for pruned symbols without calls or calledBy fields
\* of their own, b.id is in a.calls if and only if a.id is in b.calledBy,
\* for any two output project symbols a and b.
C29_SymmetricAdjacency ==
    ipc = "done" =>
        \A i \in 1..Len(result.symbols), j \in 1..Len(result.symbols) :
            LET a == result.symbols[i]
                b == result.symbols[j]
            IN (b.id \in Range(a.calls)) = (a.id \in Range(b.calledBy))

\* a run that wired an edge between two project symbols and an edge with
\* one end outside the symbol table
C29_Witness ==
    /\ ipc = "done"
    /\ \E i \in 1..Len(result.symbols), j \in 1..Len(result.symbols) :
          /\ i # j
          /\ result.symbols[j].id \in Range(result.symbols[i].calls)
    /\ \E i \in 1..Len(result.symbols) :
          \E c \in Range(result.symbols[i].calls) \cup Range(result.symbols[i].calledBy) :
              c \notin OutSymbolIds

(***************************************************************************)
(* lsp_build_deps.py: normalize_ref_file, called on its own                *)
(***************************************************************************)
\* the index has up to MaxKeys files
MaxKeys == 2

\* index keys (relative paths) and reference paths (absolute or relative);
\* b and ab are different files, one name ending with the other
KeyPool == {<<"b">>, <<"a", "b">>, <<"x", "/", "b">>, <<"y", "/", "a", "b">>}

RefFilePool == {<<"/", "r", "/", "a", "b">>, <<"/", "r", "/", "b">>, <<"/", "r", "/", "x", "/", "b">>, <<"a", "b">>, <<"b">>, <<"/", "r", "/", "c">>}

\* lists of distinct keys, as the keys of a dict are
KeyLists == {ks \in SeqsUpTo(KeyPool, MaxKeys) : \A i, j \in 1..Len(ks) : ks[i] = ks[j] => i = j}

InitNorm ==
    /\ nrf_ref \in RefFilePool
    /\ nrf_keys \in KeyLists
    /\ nrf_ret = <<>>
    /\ npc = "start"
    /\ IdleTopo
    /\ IdleIntegrate
    /\ IdleDeps
    /\ IdleMain
    /\ IdleHover
    /\ IdleRange
    /\ IdleEnclosing
    /\ IdleRefs
    /\ IdleRoot
    /\ IdlePipe

\* the call normalize_ref_file(ref_file, index_keys)
NormalizeRefFileCall ==
    /\ npc = "start"
    /\ nrf_ret' = NormalizeRefFile(nrf_ref, nrf_keys)
    /\ npc' = "done"
    /\ UNCHANGED <<nrf_ref, nrf_keys, topoVars, intVars, depsVars, mainVars, hoverVars, rangeVars, enclosingVars, refsVars, rootVars, pipeVars>>

NextNorm == NormalizeRefFileCall

SpecNorm == InitNorm /\ [][NextNorm]_vars /\ WF_vars(NextNorm)

(***************************************************************************)
(* Properties of normalize_ref_file                                        *)
(***************************************************************************)
\* the components of path a are a trailing run of those of path b
TrailingRun(a, b) ==
    LET pa == Parts(a)
        pb == Parts(b)
    IN Len(pa) <= Len(pb) /\ SubSeq(pb, Len(pb) - Len(pa) + 1, Len(pb)) = pa

\* the last component of a path
LastPart(path) == Parts(path)[Len(Parts(path))]

\* key k names the same file as the reference
NamesSameFile(k, ref_file) ==
    \/ TrailingRun(k, ref_file)
    \/ TrailingRun(ref_file, k)
    \/ LastPart(k) = LastPart(ref_file)

\* C30: normalize_ref_file returns the reference path itself when it is an
\* indexed key; otherwise it returns only an indexed key that names the same
\* file as the reference, and nothing when there is no such key; it never
\* returns a key whose basename differs from the reference's basename.
C30_OnlySameFile ==
    npc = "done" =>
        /\ nrf_ref \in Range(nrf_keys) => nrf_ret = nrf_ref
        /\ nrf_ref \notin Range(nrf_keys) =>
              /\ nrf_ret # None => nrf_ret \in Range(nrf_keys) /\ NamesSameFile(nrf_ret, nrf_ref)
              /\ (nrf_ret = None) = (\A k \in Range(nrf_keys) : ~NamesSameFile(k, nrf_ref))
        /\ nrf_ret # None => LastPart(nrf_ret) = LastPart(nrf_ref)

\* the same, when no key and reference end with one another as strings
\* without doing so as paths
C30_WhenSuffixIsWholeComponents ==
    (\A k \in Range(nrf_keys) :
        (EndsWith(k, nrf_ref) \/ EndsWith(nrf_ref, k)) => NamesSameFile(k, nrf_ref)) =>
        C30_OnlySameFile
====
